---- MODULE Spec2Model ----
(***************************************************************************)
(* Heading collapse for the Lexical based Markdown editor.                 *)
(*                                                                         *)
(* The model covers the Collapsed-State Record (CollapsedStateNode.ts),    *)
(* the Heading Collapse Controller (HeadingCollapsePlugin.tsx) and the     *)
(* parts of the host framework the controller relies on: the committed     *)
(* editor state, the reconciled DOM children of the editor root, the       *)
(* update/mutation listeners run at commit, and the history plugin's       *)
(* undo and redo stacks.                                                   *)
(*                                                                         *)
(* The editor root element is attached for as long as the controller is    *)
(* mounted, and CollapsedStateNode is a registered node class.             *)
(***************************************************************************)
EXTENDS Integers, Sequences, FiniteSets, TLC

\* ------------------------------------------------------------------ bounds
\* Heading ranks modelled (h1..hMaxLevel).
MaxLevel == 3
\* Longest list of top-level children drawn for a stand-alone re-apply pass.
MaxPassLen == 3
\* Node keys the editor may allocate in one behaviour (so the root never has
\* more children than that).
MaxKey == 3
\* Longest undo stack.
MaxHist == 2
\* Animation frames one hover-tracking effect requests in a behaviour.
MaxFrames == 3

\* Pointer-release timers of the selection toolbar pending at one time.
MaxSettleTimers == 2

\* Top-level blocks and items of a list in the document with lists, and the
\* number of characters of a block's or item's text.
MaxBlocks == 2

MaxListItems == 3

TextLen == 2

\* Node keys the document with lists hands out.
MaxListKey == 6

VARIABLES
    editorState,          \* committed editor state: the root's children, in order
    dom,                  \* root.children: one element per top-level node
    collapsedHeadingKeys, \* collapsedHeadingKeysRef.current
    hoverHeading,         \* key of the hovered heading, or None
    undoStack,            \* history plugin: earlier editor states
    redoStack,            \* history plugin: undone editor states
    nextKey,              \* next node key the editor allocates
    mounted,              \* the controller's effects are live (not torn down)
    rafId,                \* hover effect: id of the last requested frame, or None
    pendingFrames,        \* animation-frame callbacks requested and not yet run
    pointer,              \* what the pointer did last, as the hover claims see it
    toolbar,              \* SelectionBubbleMenuPlugin: its state and refs
    timers,               \* SelectionBubbleMenuPlugin: pending timeouts, by time left
    page,                 \* selection, composition, pointer button and focus
    trace,                \* the last toolbar step, as the toolbar claims see it
    listDoc,              \* a document with lists: the root's children, next key
    rangeSelection,       \* the range selection in that document
    lastDelete,           \* the last step on that document, as C20 sees it
    clipboard,            \* the system clipboard
    lastCopy,             \* the last Copy, as the claims on Copy see it
    overlay,              \* NodeActionIconPlugin: its state, and the editor's selection
    lastOverlay,          \* the last overlay step, as the overlay claims see it
    derivation,           \* blockType, formatState and selectionRect of the toolbar
    lastDerive,           \* the last derivation, as the claims on it see it
    shown,                \* the heading toggle button as it was last rendered
    nodes,                \* CollapsedStateNode versions and the Set objects they hold
    lastNode,             \* the last step on the record node, as its claims see it
    marks,                \* what hideElement and tryRestoreElements did to the children
    track,                \* position tracking of a hover button: layout, state, observer
    highlight,            \* elements with the node-hover class and the component's ref
    last                  \* what the last step was, with snapshots around it

vars == <<editorState, dom, collapsedHeadingKeys, hoverHeading, undoStack,
          redoStack, nextKey, mounted, rafId, pendingFrames, pointer,
          toolbar, timers, page, trace, listDoc, rangeSelection, lastDelete,
          clipboard, lastCopy, overlay, lastOverlay, derivation, lastDerive, shown, nodes, lastNode, marks, track, highlight, last>>

hoverVars == <<rafId, pendingFrames, pointer>>

\* The variables the collapse, teardown and serialization steps leave alone.
listVars == <<listDoc, rangeSelection, lastDelete>>

copyVars == <<clipboard, lastCopy>>

\* The state of the toolbar's operations.
overlayVars == <<overlay, lastOverlay>>

deriveVars == <<derivation, lastDerive>>

nodeVars == <<nodes, lastNode>>

renderVars == <<shown, nodeVars, marks, track, highlight>>

otherVars == <<listVars, copyVars, overlayVars, deriveVars, renderVars>>

outsideToggle == <<hoverVars, toolbar, timers, page, trace, listVars, copyVars, overlayVars,
                   deriveVars, nodeVars, marks, track, highlight>>

outsideCollapse == <<hoverVars, toolbar, timers, page, trace, otherVars>>

toolbarVars == <<toolbar, timers, page, trace>>

\* Timer delays of the selection toolbar, in milliseconds.
SELECTION_UPDATE_DELAY == 50

SELECTION_DEBOUNCE_DELAY == 120

\* null: no hovered heading, no node, no record.
None == 0

\* ------------------------------------------------------------ hover tracking
\* Pointer-event targets: the component's own button, a place of the
\* container outside the editor root, or the element of a root child.
ButtonTarget == [kind |-> "button", key |-> None]

GutterTarget == [kind |-> "gutter", key |-> None]

ElementTarget(k) == [kind |-> "element", key |-> k]

NoTarget == [kind |-> "none", key |-> None]

\* No frame requested, no pointer event seen.
HoverIdle ==
    /\ rafId = None
    /\ pendingFrames = {}
    /\ pointer = [left |-> FALSE, target |-> NoTarget, moves |-> 0, burst |-> 0, evals |-> 0,
                 onButton |-> FALSE]

\* ------------------------------------------------------- selection toolbar
\* The two SelectionBubbleMenuPlugin sources: "A" keeps shouldShow, debounces
\* native selectionchange events and listens to SELECTION_CHANGE_COMMAND;
\* "B" listens to editor updates and keeps the pointer flag in a ref.
Versions == {"A", "B"}

\* The state after the first render and its effects. The focusin/focusout
\* effect runs once, after that render: it attaches its listeners only if
\* bubbleRef.current is set, that is if the toolbar is rendered then.
OpenOf(tb) ==
    /\ tb.mounted
    /\ IF tb.version = "A" THEN tb.shouldShow /\ tb.selectionRect ELSE tb.selectionRect

FirstRender(v) ==
    [version |-> v, mounted |-> TRUE, shouldShow |-> FALSE, isPointerDown |-> FALSE,
     isBubbleFocused |-> FALSE, selectionRect |-> FALSE, focusListening |-> FALSE]

MountedToolbar(v) == [FirstRender(v) EXCEPT !.focusListening = OpenOf(FirstRender(v))]

NoTimers == [debounce |-> {}, settle |-> {}, format |-> {}]

NoTrace == [op |-> "init", derived |-> FALSE, read |-> "none", composing |-> FALSE,
            held |-> "up", focus |-> FALSE, mounted |-> TRUE, burst |-> {},
            basis |-> [read |-> "none", composing |-> FALSE],
            restarted |-> FALSE, extra |-> FALSE]

ToolbarIdle(v) ==
    /\ toolbar = MountedToolbar(v)
    /\ timers = NoTimers
    /\ page = [selection |-> "none", composing |-> FALSE, held |-> "up", focus |-> FALSE]
    /\ trace = NoTrace

\* ------------------------------------------------------ document with lists
\* A top-level block is a paragraph with text, or a list with list items,
\* each with text; texts are kept by their length.
ListParagraph(k, n) == [key |-> k, type |-> "paragraph", len |-> n, items |-> <<>>]

ListItem(k, n) == [key |-> k, len |-> n]

ListNode(k, items) == [key |-> k, type |-> "list", len |-> 0, items |-> items]

\* A point of the selection: block, item (0 in a paragraph) and offset.
Point(b, i, o) == [block |-> b, item |-> i, offset |-> o]

NoRange == [on |-> FALSE, anchor |-> Point(1, 0, 0), focus |-> Point(1, 0, 0)]

NoDelete == [op |-> "init", pre |-> <<>>, range |-> NoRange]

ListIdle ==
    /\ listDoc = [children |-> <<ListParagraph(1, TextLen)>>, nextKey |-> 2]
    /\ rangeSelection = NoRange
    /\ lastDelete = NoDelete

\* Nothing was copied yet.
NoCopy == [op |-> "init", text |-> 0, dispatched |-> FALSE, handled |-> FALSE,
           writeCalled |-> FALSE, failure |-> "none", logged |-> FALSE,
           escaped |-> FALSE]

CopyIdle ==
    /\ clipboard = [by |-> "nothing", len |-> 0]
    /\ lastCopy = NoCopy

\* The two NodeActionIconPlugin sources: "N1" is NodeActionIconPlugin.tsx
\* (hoverInfo, selectNodeText), "N2" the other one (overlayInfo, selectNode).
OverlayVersions == {"N1", "N2"}

\* The pointer is over the editor's root element itself, not over a block.
RootTarget == [kind |-> "root", key |-> None]

NoOverlayStep == [op |-> "init", target |-> NoTarget, threw |-> FALSE,
                  before |-> None, top |-> None, hadText |-> FALSE,
                  wasNull |-> FALSE]

\* Nothing hovered, nothing highlighted, no frame requested; the editor has
\* no selection and no focus.
OverlayIdle(n) ==
    /\ overlay = [version |-> n, mounted |-> TRUE, info |-> None, highlighted |-> None,
                  rafId |-> None, pending |-> {}, onButton |-> FALSE,
                  nodeSelection |-> {}, caret |-> FALSE, focused |-> FALSE]
    /\ lastOverlay = NoOverlayStep

\* The seven inline formats of the toolbar.
Formats == {"bold", "italic", "underline", "strikethrough", "code", "subscript",
            "superscript"}

\* initialFormatState: every flag false.
initialFormatState == [f \in Formats |-> FALSE]

NoRect == [x |-> 0, y |-> 0, width |-> 0, height |-> 0, isNull |-> TRUE]

NoElement == [type |-> "none", tag |-> "none", listType |-> "none",
              firstChild |-> "none", childTag |-> "none"]

NoDerive == [op |-> "init", composing |-> FALSE, ranged |-> FALSE, element |-> NoElement,
             computedRect |-> NoRect, flags |-> initialFormatState,
             storedRect |-> NoRect, storedFormat |-> initialFormatState,
             keptRect |-> TRUE, keptFormat |-> TRUE]

\* useState("paragraph"), useState(initialFormatState), useState(null).
DeriveIdle ==
    /\ derivation = [blockType |-> "paragraph", formatState |-> initialFormatState,
                     formatIsInitial |-> TRUE, selectionRect |-> NoRect]
    /\ lastDerive = NoDerive

\* The component renders null while there is no hover target.
NoButton == [key |-> None, isCollapsed |-> FALSE]

\* Before any step on the record node.
NoNodeStep == [op |-> "init", key |-> None, before |-> {}, earlier |-> {}, twice |-> FALSE,
               json |-> <<>>, after |-> <<>>]

\* A record node as $createCollapsedStateNode makes it, committed: its
\* __keys is the first Set object, empty; no set was handed out yet.
NodeIdle ==
    /\ nodes = [heap |-> << <<>> >>, versions |-> <<1>>, frozen |-> <<{}>>, cache |-> None]
    /\ lastNode = NoNodeStep

\* Nothing hidden or restored yet.
NoMarks == [op |-> "init", own |-> <<>>, hidden |-> {}, again |-> {}, was |-> {}]

\* Blocks of the tracked layout, their heights, scroll offsets of the
\* container, and the events of the environment a behaviour has.
MaxTrackBlocks == 2

MaxHeight == 2

MaxScroll == 1

MaxEvents == 2

\* No notification target, state or observer: the component before any hover.
NoInfo == [key |-> None]

NoObserver == [el |-> None, lastEl |-> 0, lastContainer |-> 0]

Untracked(version, heights) ==
    [version |-> version, heights |-> heights, scroll |-> 0, events |-> 0,
     info |-> NoInfo, stale |-> FALSE, observer |-> NoObserver]

\* Blocks whose elements can be highlighted, and the elements ever created.
MaxHighlightBlocks == 2

MaxElements == 4

\* The component mounted over blocks with an element each, nothing hovered,
\* no element with the class, the ref null.
Unhighlighted(version) ==
    [version |-> version, mounted |-> TRUE,
     elements |-> [b \in 1..MaxHighlightBlocks |-> b], nextEl |-> MaxHighlightBlocks + 1,
     info |-> None, classed |-> {}, ref |-> None, from |-> None]

LaterIdle ==
    /\ shown = NoButton
    /\ NodeIdle
    /\ marks = NoMarks
    /\ track = Untracked("overlay", [b \in 1..MaxTrackBlocks |-> 1])
    /\ highlight = Unhighlighted("N1")

OtherIdle == ListIdle /\ CopyIdle /\ OverlayIdle("N1") /\ DeriveIdle /\ LaterIdle

OutsideCollapseIdle == HoverIdle /\ ToolbarIdle("A") /\ OtherIdle

\* ------------------------------------------------------------ document nodes
TagNames == <<"h1", "h2", "h3", "h4", "h5", "h6">>

Tags == {TagNames[l] : l \in 1..MaxLevel}

HeadingNode(k, tag) == [key |-> k, type |-> "heading", tag |-> tag, keys |-> {}]

ParagraphNode(k) == [key |-> k, type |-> "paragraph", tag |-> "p", keys |-> {}]

\* new CollapsedStateNode(): an empty key set
CollapsedStateNode(k) == [key |-> k, type |-> "collapsed-state", tag |-> "span", keys |-> {}]

\* Number(tag.replace('h', '')) || 0
TagLevel(tag) ==
    CASE tag = "h1" -> 1
      [] tag = "h2" -> 2
      [] tag = "h3" -> 3
      [] tag = "h4" -> 4
      [] tag = "h5" -> 5
      [] tag = "h6" -> 6
      [] OTHER -> 0

NoNode == [key |-> None, type |-> "null", tag |-> "", keys |-> {}]

\* $getNearestNodeFromDOMNode(el).getTopLevelElementOrThrow() for a child of
\* the root element: the top-level node rendered by it, or NoNode (null).
NearestNode(state, el) ==
    IF \E p \in 1..Len(state) : state[p].key = el.key
    THEN state[CHOOSE p \in 1..Len(state) : state[p].key = el.key]
    ELSE NoNode


\* ------------------------------------------------------ CollapsedStateNode
\* $getCollapsedStateNode: position of the first root child of type
\* collapsed-state, or None.
GetCollapsedStateNode(state) ==
    LET recs == {p \in 1..Len(state) : state[p].type = "collapsed-state"}
    IN IF recs = {} THEN None
       ELSE CHOOSE p \in recs : \A q \in recs : p <= q

\* stateNode ? stateNode.getKeys() : new Set()
RecordKeys(state) ==
    IF GetCollapsedStateNode(state) = None THEN {}
    ELSE state[GetCollapsedStateNode(state)].keys

GetKeysShared(state) ==
    [keys |-> RecordKeys(state), shared |-> GetCollapsedStateNode(state) # None]

\* The controller's read of the record: getKeys returns a copy of the node's
\* set (new Set(...)), so the set handed out is not shared with the node; no
\* record gives a fresh empty set.
GetKeys(state) == [keys |-> RecordKeys(state), shared |-> FALSE]

\* The editor state after a set obtained as `got` was pruned in place to
\* `pruned`: a set shared with the record's node changes the node with it.
AfterPruning(state, got, pruned) ==
    IF got.shared
    THEN [state EXCEPT ![GetCollapsedStateNode(state)].keys = pruned]
    ELSE state

ToggleAddsOnly(keys, k) == keys \cup {k}

\* CollapsedStateNode.toggle
ToggleKey(keys, k) == IF k \in keys THEN keys \ {k} ELSE keys \cup {k}

\* --------------------------------------------------------------------- DOM
\* A freshly created element of a node (createDOM).
NewElement(node) ==
    [key |-> node.key,
     display |-> IF node.type = "collapsed-state" THEN "none" ELSE "",
     marked |-> FALSE, origDisplay |-> ""]

\* A hide that records the display whether or not the marker is there.
HideOverwrites(el) ==
    [el EXCEPT !.marked = TRUE, !.origDisplay = el.display, !.display = "none"]

\* hideElement
HideElement(el) ==
    IF ~el.marked
    THEN [el EXCEPT !.marked = TRUE, !.origDisplay = el.display, !.display = "none"]
    ELSE [el EXCEPT !.display = "none"]

\* tryRestoreElements
TryRestoreElements(children) ==
    [i \in 1..Len(children) |->
        IF children[i].marked
        THEN [children[i] EXCEPT !.display = children[i].origDisplay,
                                 !.marked = FALSE, !.origDisplay = ""]
        ELSE children[i]]

\* ------------------------------------------------------ reapplyAllCollapses
RECURSIVE ScanStopsBelow(_, _, _, _, _)
ScanStopsBelow(state, children, j, level, toHide) ==
    IF j > Len(children) THEN toHide
    ELSE LET sibTop == NearestNode(state, children[j])
         IN IF sibTop.type = "heading" /\ TagLevel(sibTop.tag) < level
            THEN toHide
            ELSE ScanStopsBelow(state, children, j + 1, level, toHide \cup {j})

\* The inner loop: from child j on, every sibling is added to toHide until a
\* heading of level <= `level` (break) or the end of the children.
RECURSIVE ScanSection(_, _, _, _, _)
ScanSection(state, children, j, level, toHide) ==
    IF j > Len(children) THEN toHide
    ELSE LET sibTop == NearestNode(state, children[j])
         IN IF sibTop.type = "heading" /\ TagLevel(sibTop.tag) <= level
            THEN toHide
            ELSE ScanSection(state, children, j + 1, level, toHide \cup {j})

\* The outer loop over root.children inside editor.read: acc.toHide holds
\* the positions to hide, acc.valid the collapsed keys met as headings.
RECURSIVE WalkChildren(_, _, _, _, _)
WalkChildren(state, children, collapsedKeys, i, acc) ==
    IF i > Len(children) THEN acc
    ELSE LET top == NearestNode(state, children[i])
         IN IF top.type # "heading"
            THEN WalkChildren(state, children, collapsedKeys, i + 1, acc)
            ELSE IF top.key \notin collapsedKeys
            THEN WalkChildren(state, children, collapsedKeys, i + 1, acc)
            ELSE WalkChildren(state, children, collapsedKeys, i + 1,
                    [toHide |-> ScanSection(state, children, i + 1,
                                            TagLevel(top.tag), acc.toHide),
                     valid |-> acc.valid \cup {top.key}])

PruneNothing(collapsedKeys, valid) == collapsedKeys

PruneInverted(collapsedKeys, valid) == {k \in collapsedKeys : k \notin valid}

\* The pruning loop: every key not met as a valid heading is deleted.
PruneKeys(collapsedKeys, valid) == {k \in collapsedKeys : k \in valid}

ReapplyWithoutRestore(state, children, collapsedKeys) ==
    LET walk == WalkChildren(state, children, collapsedKeys, 1,
                             [toHide |-> {}, valid |-> {}])
    IN [dom |-> [i \in 1..Len(children) |->
                    IF i \in walk.toHide THEN HideElement(children[i])
                    ELSE children[i]],
        keys |-> PruneKeys(collapsedKeys, walk.valid)]

\* reapplyAllCollapses(editor, collapsedKeys) on the root children: the
\* children afterwards and the (pruned in place) collapsed set.
ReapplyAllCollapses(state, children, collapsedKeys) ==
    LET restored == TryRestoreElements(children)
        walk == WalkChildren(state, restored, collapsedKeys, 1,
                             [toHide |-> {}, valid |-> {}])
    IN [dom |-> [i \in 1..Len(restored) |->
                    IF i \in walk.toHide THEN HideElement(restored[i])
                    ELSE restored[i]],
        keys |-> PruneKeys(collapsedKeys, walk.valid)]

\* ------------------------------------------------------------- observations
\* Keys of the elements the controller currently hides (marker present).
HiddenKeys(children) == {children[i].key : i \in {p \in 1..Len(children) : children[p].marked}}

\* Keys of the elements whose display is none.
InvisibleKeys(children) ==
    {children[i].key : i \in {p \in 1..Len(children) : children[p].display = "none"}}

\* What the claims compare before and after an operation.
Snapshot(state, children, cache) ==
    [recordKeys |-> RecordKeys(state), cache |-> cache, dom |-> children]

NoSnapshot == Snapshot(<<>>, <<>>, {})

Step(op, key, n, pre, mid) == [op |-> op, key |-> key, n |-> n, pre |-> pre, mid |-> mid]

\* ------------------------------------------- stand-alone re-apply passes
\* All sequences of length n over S.
SeqsOfLen(S, n) == [1..n -> S]

BlockKinds == Tags \cup {"p"}

NodeOfKind(k, kind) == IF kind = "p" THEN ParagraphNode(k) ELSE HeadingNode(k, kind)

\* Top-level children with keys 1..n, with or without a record at the end.
PlainDocs(n) ==
    {[i \in 1..n |-> NodeOfKind(i, kinds[i])] : kinds \in SeqsOfLen(BlockKinds, n)}

WithRecord(doc) == Append(doc, CollapsedStateNode(Len(doc) + 1))

\* The document of the spec's scenario: H1 "A", H2 "B", H2 "C", paragraph P.
ScenarioDoc == <<HeadingNode(1, "h1"), HeadingNode(2, "h2"), HeadingNode(3, "h2"), ParagraphNode(4)>>

PassDocs ==
    UNION {PlainDocs(n) : n \in 0..MaxPassLen}
    \cup {WithRecord(d) : d \in UNION {PlainDocs(n) : n \in 0..(MaxPassLen - 1)}}
    \cup {ScenarioDoc, WithRecord(ScenarioDoc)}

\* The children of a reconciled root as an earlier pass left them: freshly
\* created elements, hidden as the pass for some earlier collapsed set did.
PassDoms(doc) ==
    {ReapplyAllCollapses(doc, [i \in 1..Len(doc) |-> NewElement(doc[i])], earlier).dom
     : earlier \in SUBSET {doc[p].key : p \in {q \in 1..Len(doc) : doc[q].type = "heading"}}}

InitPass ==
    /\ editorState \in PassDocs
    /\ dom \in PassDoms(editorState)
    /\ collapsedHeadingKeys \in SUBSET (1..(Len(editorState) + 1))
    /\ hoverHeading = None
    /\ undoStack = <<>>
    /\ redoStack = <<>>
    /\ nextKey = Len(editorState) + 1
    /\ mounted = TRUE
    /\ OutsideCollapseIdle
    /\ last = Step("init", None, 0, NoSnapshot, NoSnapshot)

\* One call of reapplyAllCollapses(editor, collapsedHeadingKeysRef.current).
PassReapply ==
    /\ last.n < 2
    /\ \E r \in {ReapplyAllCollapses(editorState, dom, collapsedHeadingKeys)} :
          /\ dom' = r.dom
          /\ collapsedHeadingKeys' = r.keys
          /\ last' = Step("pass", None, last.n + 1,
                          Snapshot(editorState, dom, collapsedHeadingKeys),
                          IF last.n = 0 THEN NoSnapshot ELSE last.pre)
    /\ UNCHANGED <<editorState, hoverHeading, undoStack, redoStack, nextKey, mounted>>

NextPass == PassReapply /\ UNCHANGED outsideCollapse

SpecPass == InitPass /\ [][NextPass]_vars

\* ------------------------------------------------- commit and listeners
\* The reconciler: an element is kept for every key that stays among the
\* root's children and created for every new key; the others are removed.
Reconcile(children, next) ==
    [p \in 1..Len(next) |->
        IF \E q \in 1..Len(children) : children[q].key = next[p].key
        THEN children[CHOOSE q \in 1..Len(children) : children[q].key = next[p].key]
        ELSE NewElement(next[p])]

HeadingNodes(state) == {state[p] : p \in {q \in 1..Len(state) : state[q].type = "heading"}}

\* registerMutationListener(HeadingNode, ...): runs when a commit created,
\* destroyed or updated a heading (`touched`: an edit inside a heading that
\* stays); it re-applies with the cached set.
MutationListener(prev, next, touched, children, cache) ==
    IF touched \/ HeadingNodes(prev) # HeadingNodes(next)
    THEN ReapplyAllCollapses(next, children, cache)
    ELSE [dom |-> children, keys |-> cache]

UpdateListenerKeepsCache(next, children, cache) ==
    LET r == ReapplyAllCollapses(next, children, cache)
    IN [dom |-> r.dom, keys |-> r.keys, state |-> next]

\* registerUpdateListener: the cache becomes the set getKeys returns for the
\* record of the committed state (empty without a record), then the pass
\* runs on it.
UpdateListener(next, children, cache) ==
    LET got == GetKeys(next)
        r == ReapplyAllCollapses(next, children, got.keys)
    IN [dom |-> r.dom, keys |-> r.keys, state |-> AfterPruning(next, got, r.keys)]

\* A commit of editor state `next`: the DOM is reconciled, then the mutation
\* listeners run, then the update listeners. `touched`: the update edited
\* inside a heading.
Commit(prev, next, touched, children, cache) ==
    LET m == MutationListener(prev, next, touched, Reconcile(children, next), cache)
    IN UpdateListener(next, m.dom, m.keys)

\* A commit while the controller is mounted runs its listeners; once its
\* effects are cleaned up (the register* calls' return values) only the
\* reconciler touches the root's children.
CommitWhen(isMounted, prev, next, touched, children, cache) ==
    IF isMounted THEN Commit(prev, next, touched, children, cache)
    ELSE [dom |-> Reconcile(children, next), keys |-> cache, state |-> next]

\* ------------------------------------------------------- toggle command
ToggleUpdateAlwaysCreates(state, k, newKey) ==
    Append(state, [CollapsedStateNode(newKey) EXCEPT !.keys = ToggleKey({}, k)])

\* The editor.update of the command handler: the record is created and
\* appended to the root when $getCollapsedStateNode finds none, then toggled.
ToggleUpdate(state, k, newKey) ==
    IF GetCollapsedStateNode(state) = None
    THEN Append(state, [CollapsedStateNode(newKey) EXCEPT !.keys = ToggleKey({}, k)])
    ELSE [state EXCEPT ![GetCollapsedStateNode(state)].keys =
              ToggleKey(state[GetCollapsedStateNode(state)].keys, k)]

\* The handler after queueing its update: the cache is synchronised from
\* editor.getEditorState(), still the state committed before the command,
\* and the pass runs on it.
HandlerSync(state, children) ==
    LET got == GetKeys(state)
        r == ReapplyAllCollapses(state, children, got.keys)
    IN [dom |-> r.dom, keys |-> r.keys, state |-> AfterPruning(state, got, r.keys)]

\* ---------------------------------------------------------------- history
\* historyState.current === null: the history plugin has seen no update yet.
NoEntry == last.op = "init"

CanPush == Len(undoStack) < MaxHist

\* HISTORY_PUSH: the current entry, if there is one, goes on the undo stack
\* and the redo stack is emptied; the committed state becomes the current
\* entry.
HistoryPush ==
    /\ NoEntry \/ CanPush
    /\ undoStack' = IF NoEntry THEN undoStack ELSE Append(undoStack, editorState)
    /\ redoStack' = <<>>

NoStep(op) == Step(op, None, 0, NoSnapshot, NoSnapshot)

Now == Snapshot(editorState, dom, collapsedHeadingKeys)

\* The editor commits `next` as a new history entry.
CommitPushed(next) ==
    /\ \E c \in {CommitWhen(mounted, editorState, next, FALSE, dom, collapsedHeadingKeys)} :
          /\ editorState' = c.state
          /\ dom' = c.dom
          /\ collapsedHeadingKeys' = c.keys
    /\ HistoryPush
    /\ last' = NoStep("other")
    /\ UNCHANGED <<hoverHeading, mounted>>

\* ---------------------------------------------------------------- actions
Init ==
    /\ editorState = <<ParagraphNode(1)>>
    /\ dom = <<NewElement(ParagraphNode(1))>>
    /\ collapsedHeadingKeys = {}
    /\ hoverHeading = None
    /\ undoStack = <<>>
    /\ redoStack = <<>>
    /\ nextKey = 2
    /\ mounted = TRUE
    /\ OutsideCollapseIdle
    /\ last = NoStep("init")

IsBlock(node) == node.type # "collapsed-state"

\* The kinds of block the edited document is built from.
EditKinds == {"p", "h1", "h2"}

\* The editor gets focus: a selection-only update, which the history plugin
\* merges into (or takes as) its current entry.
Focus ==
    /\ NoEntry
    /\ \E c \in {CommitWhen(mounted, editorState, editorState, FALSE, dom, collapsedHeadingKeys)} :
          /\ editorState' = c.state
          /\ dom' = c.dom
          /\ collapsedHeadingKeys' = c.keys
    /\ last' = NoStep("other")
    /\ UNCHANGED <<hoverHeading, undoStack, redoStack, nextKey, mounted>>

InsertAt(state, p, node) ==
    SubSeq(state, 1, p - 1) \o <<node>> \o SubSeq(state, p, Len(state))

RemoveAt(state, p) == SubSeq(state, 1, p - 1) \o SubSeq(state, p + 1, Len(state))

\* A new block (paragraph or heading) becomes the p-th child of the root.
InsertBlock(p, kind) ==
    /\ nextKey <= MaxKey
    /\ CommitPushed(InsertAt(editorState, p, NodeOfKind(nextKey, kind)))
    /\ nextKey' = nextKey + 1

\* The p-th block is deleted; the root keeps at least one block.
RemoveBlock(p) ==
    /\ IsBlock(editorState[p])
    /\ \E q \in 1..Len(editorState) : q # p /\ IsBlock(editorState[q])
    /\ CommitPushed(RemoveAt(editorState, p))
    /\ UNCHANGED nextKey

\* $setBlocksType: the p-th block is replaced by a new node of another kind
\* (a heading retagged, a paragraph made a heading, ...), with a new key.
ReplaceBlock(p, kind) ==
    /\ nextKey <= MaxKey
    /\ IsBlock(editorState[p])
    /\ editorState[p].tag # kind
    /\ CommitPushed([editorState EXCEPT ![p] = NodeOfKind(nextKey, kind)])
    /\ nextKey' = nextKey + 1

\* Typing in a block, a heading (inHeading) or another block, that starts a
\* new history entry: the text is not modelled, the root's children stay as
\* they are. (Typing the history plugin merges into its current entry within
\* the merge delay changes nothing that is modelled.)
EditText(inHeading) ==
    /\ \E p \in 1..Len(editorState) :
          IsBlock(editorState[p]) /\ (editorState[p].type = "heading") = inHeading
    /\ \E c \in {CommitWhen(mounted, editorState, editorState, inHeading, dom, collapsedHeadingKeys)} :
          /\ editorState' = c.state
          /\ dom' = c.dom
          /\ collapsedHeadingKeys' = c.keys
    /\ HistoryPush
    /\ last' = NoStep("other")
    /\ UNCHANGED <<hoverHeading, nextKey, mounted>>

\* A hover evaluation over the element of a visible top-level heading.
HoverHeading(p) ==
    /\ mounted
    /\ editorState[p].type = "heading"
    /\ dom[p].display # "none"
    /\ hoverHeading' = editorState[p].key
    /\ UNCHANGED <<editorState, dom, collapsedHeadingKeys, undoStack, redoStack,
                   nextKey, mounted, last>>

\* A hover evaluation over anything else, or a pointer-leave.
HoverClear ==
    /\ hoverHeading # None
    /\ hoverHeading' = None
    /\ UNCHANGED <<editorState, dom, collapsedHeadingKeys, undoStack, redoStack,
                   nextKey, mounted, last>>

\* toggleCollapse: the button dispatches TOGGLE_HEADING_COLLAPSE_COMMAND for
\* the hovered heading; the handler queues its update, synchronises the
\* cache and re-applies; the update then runs and is committed.
ClickToggle ==
    /\ mounted
    /\ hoverHeading # None
    /\ GetCollapsedStateNode(editorState) = None => nextKey <= MaxKey
    /\ \E h \in {HandlerSync(editorState, dom)} :
       \E next \in {ToggleUpdate(h.state, hoverHeading, nextKey)} :
       \E c \in {CommitWhen(mounted, h.state, next, FALSE, h.dom, h.keys)} :
          /\ editorState' = c.state
          /\ dom' = c.dom
          /\ collapsedHeadingKeys' = c.keys
          /\ nextKey' = IF Len(next) > Len(editorState) THEN nextKey + 1 ELSE nextKey
    /\ HistoryPush
    /\ last' = IF last.op = "toggle" /\ last.key = hoverHeading /\ last.n = 1
               THEN Step("toggle", hoverHeading, 2, Now, last.pre)
               ELSE Step("toggle", hoverHeading, 1, Now, NoSnapshot)
    /\ UNCHANGED <<hoverHeading, mounted>>

\* setEditorState(entry, {tag: 'historic'}) and its commit.
Restore(entry) ==
    \E c \in {CommitWhen(mounted, editorState, entry, FALSE, dom, collapsedHeadingKeys)} :
       /\ editorState' = c.state
       /\ dom' = c.dom
       /\ collapsedHeadingKeys' = c.keys
       /\ UNCHANGED <<hoverHeading, nextKey, mounted>>

\* History undo: the current entry moves to the redo stack and the top of
\* the undo stack becomes the editor state.
Undo ==
    /\ undoStack # <<>>
    /\ Restore(undoStack[Len(undoStack)])
    /\ undoStack' = SubSeq(undoStack, 1, Len(undoStack) - 1)
    /\ redoStack' = Append(redoStack, editorState)
    /\ last' = IF last.op \in {"toggle", "redoToggle"}
               THEN Step("undoToggle", last.key, 0, Now, last.pre)
               ELSE NoStep("other")

\* History redo.
Redo ==
    /\ redoStack # <<>>
    /\ Restore(redoStack[Len(redoStack)])
    /\ redoStack' = SubSeq(redoStack, 1, Len(redoStack) - 1)
    /\ undoStack' = Append(undoStack, editorState)
    /\ last' = IF last.op = "undoToggle"
               THEN Step("redoToggle", last.key, 0, Now, last.pre)
               ELSE NoStep("other")

Next ==
    \/ Focus /\ UNCHANGED outsideCollapse
    \/ \E p \in 1..(Len(editorState) + 1), kind \in EditKinds : InsertBlock(p, kind) /\ UNCHANGED outsideCollapse
    \/ \E p \in 1..Len(editorState) : RemoveBlock(p) /\ UNCHANGED outsideCollapse
    \/ \E p \in 1..Len(editorState), kind \in EditKinds : ReplaceBlock(p, kind) /\ UNCHANGED outsideCollapse
    \/ \E inHeading \in BOOLEAN : EditText(inHeading) /\ UNCHANGED outsideCollapse
    \/ \E p \in 1..Len(editorState) : HoverHeading(p) /\ UNCHANGED outsideCollapse
    \/ HoverClear /\ UNCHANGED outsideCollapse
    \/ ClickToggle /\ UNCHANGED outsideCollapse
    \/ Undo /\ UNCHANGED outsideCollapse
    \/ Redo /\ UNCHANGED outsideCollapse

Spec == Init /\ [][Next]_vars

\* ----------------------------------------------------- the rendered button
\* A render of the component: the button is rendered for the hover target,
\* with isCollapsed = collapsedHeadingKeysRef.current.has(hoverHeading.key).
Render(hover, cache) ==
    IF hover = None THEN NoButton ELSE [key |-> hover, isCollapsed |-> hover \in cache]

\* The component renders when its state is set: by a hover evaluation
\* (setHoverHeading with a new object or null) and by the command handler's
\* onStateChanged, which runs in the handler, with the cache the handler has
\* just synchronised, before the handler's update is committed. A commit and
\* its listeners set a ref and the elements' styles and render nothing.
NextToggle ==
    \/ \E p \in 1..(Len(editorState) + 1), kind \in EditKinds :
          InsertBlock(p, kind) /\ UNCHANGED <<shown, outsideToggle>>
    \/ \E p \in 1..Len(editorState) : RemoveBlock(p) /\ UNCHANGED <<shown, outsideToggle>>
    \/ \E p \in 1..Len(editorState) :
          /\ HoverHeading(p)
          /\ shown' = Render(editorState[p].key, collapsedHeadingKeys)
          /\ UNCHANGED outsideToggle
    \/ HoverClear /\ shown' = Render(None, collapsedHeadingKeys) /\ UNCHANGED outsideToggle
    \/ /\ ClickToggle
       /\ shown' = Render(hoverHeading, HandlerSync(editorState, dom).keys)
       /\ UNCHANGED outsideToggle

SpecToggle == Init /\ [][NextToggle]_vars

\* ---------------------------------------------------------------- teardown
UnmountKeepsHidden(children) == children

\* The unmount effect's cleanup: tryRestoreElements(root) on the attached root.
UnmountRestore(children) == TryRestoreElements(children)

\* The controller is unmounted: the effects' cleanups unregister the update
\* listener, the command and the mutation listener, remove the pointer
\* handlers, and restore the hidden elements; the hover state goes with the
\* component.
Teardown ==
    /\ mounted
    /\ mounted' = FALSE
    /\ dom' = UnmountRestore(dom)
    /\ hoverHeading' = None
    /\ last' = Step("teardown", None, 0, Now, NoSnapshot)
    /\ UNCHANGED <<editorState, collapsedHeadingKeys, undoStack, redoStack, nextKey>>

\* The editor with a controller that may be torn down while editing goes on.
NextTeardown ==
    \/ Focus /\ UNCHANGED outsideCollapse
    \/ \E p \in 1..(Len(editorState) + 1), kind \in EditKinds : InsertBlock(p, kind) /\ UNCHANGED outsideCollapse
    \/ \E p \in 1..Len(editorState) : RemoveBlock(p) /\ UNCHANGED outsideCollapse
    \/ \E inHeading \in BOOLEAN : EditText(inHeading) /\ UNCHANGED outsideCollapse
    \/ \E p \in 1..Len(editorState) : HoverHeading(p) /\ UNCHANGED outsideCollapse
    \/ ClickToggle /\ UNCHANGED outsideCollapse
    \/ Undo /\ UNCHANGED outsideCollapse
    \/ Redo /\ UNCHANGED outsideCollapse
    \/ Teardown /\ UNCHANGED outsideCollapse

SpecTeardown == Init /\ [][NextTeardown]_vars

\* ------------------------------------------------ pointer events and frames
collapseVars == <<editorState, dom, collapsedHeadingKeys, undoStack, redoStack,
                  nextKey, mounted, last>>

CancelNothing(pending, id) == pending

\* cancelAnimationFrame(id): the callback requested under that id, if it is
\* still pending, is dropped.
CancelFrame(pending, id) == {f \in pending : f.id # id}

\* The body of the animation-frame callback of handlePointerMove for the
\* target captured at the pointer-move: the hover target it sets.
HoverEvaluate(state, children, target, hover) ==
    IF target.kind = "gutter" THEN hover
    ELSE IF ~\E p \in 1..Len(children) : children[p].key = target.key THEN None
    ELSE LET top == NearestNode(state, [key |-> target.key])
         IN IF top.type = "heading" THEN top.key ELSE None

\* The pending callbacks run in the order they were requested.
RECURSIVE RunFrames(_, _, _, _)
RunFrames(state, children, pending, hover) ==
    IF pending = {} THEN hover
    ELSE LET f == CHOOSE g \in pending : \A h \in pending : g.id <= h.id
         IN RunFrames(state, children, pending \ {f},
                      HoverEvaluate(state, children, f.target, hover))

\* pointermove on the container: over the button nothing is done; otherwise
\* the frame requested before is cancelled and a new one requested, which
\* captures the event's target.
PointerMove(t) ==
    /\ mounted
    /\ t.kind = "button" => hoverHeading # None
    /\ t.kind = "element" =>
          \E p \in 1..Len(dom) : dom[p].key = t.key /\ dom[p].display # "none"
    /\ IF t.kind = "button"
       THEN /\ pointer' = [pointer EXCEPT !.left = FALSE, !.onButton = TRUE]
            /\ UNCHANGED <<rafId, pendingFrames>>
       ELSE /\ rafId < MaxFrames
            /\ pendingFrames' = CancelFrame(pendingFrames, rafId)
                                    \cup {[id |-> rafId + 1, target |-> t]}
            /\ rafId' = rafId + 1
            /\ pointer' = [pointer EXCEPT !.left = FALSE, !.target = t,
                                          !.moves = pointer.moves + 1,
                                          !.onButton = FALSE]
    /\ UNCHANGED <<collapseVars, hoverHeading, toolbarVars, otherVars>>

\* pointerleave of the container (or of the button): nothing is done when
\* the pointer goes to a place inside the container; otherwise the hover
\* target is cleared.
PointerLeave(toOutside) ==
    /\ mounted
    /\ pointer.target # NoTarget
    /\ IF toOutside
       THEN /\ hoverHeading' = None
            /\ pointer' = [pointer EXCEPT !.left = TRUE, !.onButton = FALSE]
       ELSE /\ pointer' = [pointer EXCEPT !.onButton = FALSE]
            /\ UNCHANGED hoverHeading
    /\ UNCHANGED <<collapseVars, rafId, pendingFrames, toolbarVars, otherVars>>

\* An animation frame: every pending callback runs.
Frame ==
    /\ pendingFrames # {}
    /\ hoverHeading' = RunFrames(editorState, dom, pendingFrames, hoverHeading)
    /\ pendingFrames' = {}
    /\ pointer' = [pointer EXCEPT !.evals = Cardinality(pendingFrames),
                                  !.burst = pointer.moves, !.moves = 0]
    /\ UNCHANGED <<collapseVars, rafId, toolbarVars, otherVars>>

PointerTargets == {ButtonTarget, GutterTarget} \cup {ElementTarget(k) : k \in 1..MaxKey}

NextHover ==
    \/ \E p \in 1..(Len(editorState) + 1), kind \in EditKinds :
          InsertBlock(p, kind) /\ UNCHANGED outsideCollapse
    \/ \E t \in PointerTargets : PointerMove(t)
    \/ \E toOutside \in BOOLEAN : PointerLeave(toOutside)
    \/ Frame

SpecHover == Init /\ [][NextHover]_vars

\* ----------------------------------------------------------- serialization
\* exportJSON: type, tag and, for the record, keys: Array.from(this.__keys).
\* A node's own key is not part of the serialized form.
ExportJSON(node) == [type |-> node.type, tag |-> node.tag, keys |-> node.keys]

\* importJSON: a new node, which gets the key the editor allocates for it;
\* the record's key set is new Set(json.keys), the identifiers as stored.
ImportJSON(json, k) == [key |-> k, type |-> json.type, tag |-> json.tag, keys |-> json.keys]

\* The root's children as serialized, in order.
ExportDoc(state) == [p \in 1..Len(state) |-> ExportJSON(state[p])]

\* The serialized children parsed by an editor whose next key is `first`:
\* keys are allocated in document order.
ImportDoc(json, first) == [p \in 1..Len(json) |-> ImportJSON(json[p], first + p - 1)]

\* The document is exported, and imported as the initial state of a newly
\* created editor (a reload): the key counter starts over, the root is
\* rendered afresh, history and hover are empty, and the new controller's
\* update listener runs on the first commit.
Reload ==
    /\ mounted
    /\ \E loaded \in {ImportDoc(ExportDoc(editorState), 1)} :
       \E c \in {Commit(<<>>, loaded, FALSE, <<>>, {})} :
          /\ editorState' = c.state
          /\ dom' = c.dom
          /\ collapsedHeadingKeys' = c.keys
          /\ nextKey' = Len(loaded) + 1
    /\ hoverHeading' = None
    /\ undoStack' = <<>>
    /\ redoStack' = <<>>
    /\ last' = Step("reload", None, 0, Now, NoSnapshot)
    /\ UNCHANGED mounted

NextSerial ==
    \/ Focus /\ UNCHANGED outsideCollapse
    \/ \E p \in 1..(Len(editorState) + 1), kind \in EditKinds : InsertBlock(p, kind) /\ UNCHANGED outsideCollapse
    \/ \E p \in 1..Len(editorState) : RemoveBlock(p) /\ UNCHANGED outsideCollapse
    \/ \E p \in 1..Len(editorState) : HoverHeading(p) /\ UNCHANGED outsideCollapse
    \/ ClickToggle /\ UNCHANGED outsideCollapse
    \/ Reload /\ UNCHANGED outsideCollapse

SpecSerial == Init /\ [][NextSerial]_vars

\* ------------------------------------------------------- selection toolbar
Selections == {"none", "caret", "range"}

\* Whether the bounding rectangle of the DOM selection has a size: there is
\* no range without a selection, a selected range of text has a size, and
\* the rectangle of a collapsed range depends on the browser.
DomRects(domSelection) ==
    CASE domSelection = "none" -> {FALSE}
      [] domSelection = "range" -> {TRUE}
      [] OTHER -> BOOLEAN

\* A derivation without the editor.isComposing() test.
syncIgnoringComposition(isComposing, read, rectHasSize) ==
    IF read = "range" THEN rectHasSize ELSE FALSE

\* syncToolbarState: the value given to setSelectionRect (TRUE: a rectangle,
\* FALSE: null). `read` is the selection of the editor state that
\* editor.getEditorState() returns, `rectHasSize` describes the DOM selection.
syncToolbarState(isComposing, read, rectHasSize) ==
    IF isComposing THEN FALSE
    ELSE IF read = "range" THEN rectHasSize
    ELSE FALSE

\* setSelectionRect, and in version A setShouldShow(!!rect) where the caller
\* does it. A state setter of a component that is unmounted does nothing.
SetRect(tb, rect, withShow) ==
    IF ~tb.mounted THEN tb
    ELSE IF withShow /\ tb.version = "A"
         THEN [tb EXCEPT !.selectionRect = rect, !.shouldShow = rect]
         ELSE [tb EXCEPT !.selectionRect = rect]

\* The toolbar's elements leave the page when it closes, and focus with them.
AfterRender(pg, tb) == [pg EXCEPT !.focus = pg.focus /\ OpenOf(tb)]

\* A timer that is left running.
KeepTimeout(pending) == pending

\* clearTimeout of the timers a ref holds.
ClearTimeout(pending) == {}

Traced(op, derived, read) ==
    [op |-> op, derived |-> derived, read |-> read, composing |-> page.composing,
     held |-> page.held, focus |-> page.focus, mounted |-> toolbar.mounted,
     burst |-> trace.burst,
     basis |-> IF derived THEN [read |-> read, composing |-> page.composing]
               ELSE trace.basis,
     restarted |-> trace.restarted,
     extra |-> trace.extra \/ (derived /\ op # "debounce" /\ timers.debounce # {})]

\* The selection moves (to a selection of kind sel). Version A: Lexical
\* dispatches SELECTION_CHANGE_COMMAND inside the update that records the new
\* selection, so the handler's editor.getEditorState() is the state before
\* it; the document's selectionchange event restarts the debounce timer.
\* Version B: the update listener runs after the commit.
SelectionChange(sel) ==
    /\ toolbar.mounted
    /\ \E rectHasSize \in DomRects(sel) :
         IF toolbar.version = "A"
         THEN \E runs \in {~toolbar.isPointerDown /\ ~toolbar.isBubbleFocused} :
                /\ toolbar' = IF runs
                              THEN SetRect(toolbar,
                                     syncToolbarState(page.composing, page.selection, rectHasSize),
                                     TRUE)
                              ELSE toolbar
                /\ timers' = IF toolbar.isPointerDown THEN timers
                             ELSE [timers EXCEPT !.debounce =
                                     ClearTimeout(timers.debounce) \cup {SELECTION_DEBOUNCE_DELAY}]
                /\ trace' = IF toolbar.isPointerDown
                             THEN Traced("selectionChange", runs, page.selection)
                             ELSE [Traced("selectionChange", runs, page.selection) EXCEPT
                                     !.burst = {0},
                                     !.restarted = timers.debounce # {},
                                     !.extra = runs \/ (timers.debounce # {} /\ trace.extra)]
         ELSE \E runs \in {~toolbar.isPointerDown /\ ~toolbar.isBubbleFocused} :
                /\ toolbar' = IF runs
                              THEN SetRect(toolbar,
                                     syncToolbarState(page.composing, sel, rectHasSize), FALSE)
                              ELSE toolbar
                /\ timers' = timers
                /\ trace' = Traced("selectionChange", runs, sel)
    /\ page' = AfterRender([page EXCEPT !.selection = sel], toolbar')

\* The document changes and the selection keeps its kind. Version B's update
\* listener derives the state; version A has no listener for it.
DocUpdate ==
    /\ toolbar.mounted
    /\ \E rectHasSize \in DomRects(page.selection) :
       \E runs \in {toolbar.version = "B" /\ ~toolbar.isPointerDown /\ ~toolbar.isBubbleFocused} :
         /\ toolbar' = IF runs
                       THEN SetRect(toolbar,
                              syncToolbarState(page.composing, page.selection, rectHasSize), FALSE)
                       ELSE toolbar
         /\ trace' = Traced("docUpdate", runs, page.selection)
    /\ page' = AfterRender(page, toolbar')
    /\ UNCHANGED timers

\* pointerdown. Version A: inside the toolbar nothing is done; outside,
\* setIsPointerDown(true), and the effect that depends on isPointerDown is
\* cleaned up, which clears the debounce timer. Version B: the ref is set and
\* the settle timer cleared.
PointerDown(inside) ==
    /\ toolbar.mounted
    /\ page.held = "up"
    /\ inside => OpenOf(toolbar)
    /\ IF toolbar.version = "A"
       THEN IF inside
            THEN UNCHANGED <<toolbar, timers>>
            ELSE /\ toolbar' = [toolbar EXCEPT !.isPointerDown = TRUE]
                 /\ timers' = [timers EXCEPT !.debounce = ClearTimeout(timers.debounce)]
       ELSE /\ toolbar' = [toolbar EXCEPT !.isPointerDown = TRUE]
            /\ timers' = [timers EXCEPT !.settle = ClearTimeout(timers.settle)]
    /\ page' = [page EXCEPT !.held = IF inside THEN "inside" ELSE "outside"]
    /\ trace' = [Traced("pointerDown", FALSE, page.selection) EXCEPT
                   !.burst = IF toolbar'.isPointerDown THEN {} ELSE trace.burst]

\* pointerup. Version A: setIsPointerDown(false) and, if the release is
\* outside the toolbar, window.setTimeout(..., SELECTION_UPDATE_DELAY), whose
\* identifier is not kept; the effect is cleaned up if isPointerDown changed.
\* Version B: the ref is reset and timerRef holds the new timer.
PointerUp(inside) ==
    /\ toolbar.mounted
    /\ page.held # "up"
    /\ inside => OpenOf(toolbar)
    /\ Cardinality(timers.settle \ {SELECTION_UPDATE_DELAY}) < MaxSettleTimers
    /\ toolbar' = [toolbar EXCEPT !.isPointerDown = FALSE]
    /\ IF toolbar.version = "A"
       THEN timers' = [timers EXCEPT
                         !.debounce = IF toolbar.isPointerDown
                                      THEN ClearTimeout(timers.debounce) ELSE timers.debounce,
                         !.settle = IF inside THEN timers.settle
                                    ELSE timers.settle \cup {SELECTION_UPDATE_DELAY}]
       ELSE timers' = [timers EXCEPT !.settle = timers.settle \cup {SELECTION_UPDATE_DELAY}]
    /\ page' = [page EXCEPT !.held = "up"]
    /\ trace' = [Traced("pointerUp", FALSE, page.selection) EXCEPT
                   !.burst = IF toolbar.isPointerDown THEN {} ELSE trace.burst]

\* A timer whose delay has passed runs its callback: syncToolbarState on the
\* committed state; the debounce and settle callbacks of version A also
\* setShouldShow.
FireTimer(which) ==
    /\ 0 \in timers[which]
    /\ timers' = [timers EXCEPT ![which] = timers[which] \ {0}]
    /\ \E rectHasSize \in DomRects(page.selection) :
         toolbar' = SetRect(toolbar,
                      syncToolbarState(page.composing, page.selection, rectHasSize),
                      which # "format")
    /\ page' = AfterRender(page, toolbar')
    /\ trace' = Traced(which, TRUE, page.selection)

TimerKinds == {"debounce", "settle", "format"}

\* The greatest common divisor of the two delays is the unit of time.
RECURSIVE GCD(_, _)
GCD(a, b) == IF b = 0 THEN a ELSE GCD(b, a % b)

TimeStep == GCD(SELECTION_DEBOUNCE_DELAY, SELECTION_UPDATE_DELAY)

Elapse(pending) == {t - TimeStep : t \in pending}

\* Time passes while a timer is pending and none is due.
Tick ==
    /\ \E which \in TimerKinds : timers[which] # {}
    /\ \A which \in TimerKinds : 0 \notin timers[which]
    /\ timers' = [which \in TimerKinds |-> Elapse(timers[which])]
    /\ trace' = [Traced("tick", FALSE, page.selection) EXCEPT
                   !.burst = IF timers.debounce = {} THEN trace.burst
                             ELSE {b + TimeStep : b \in trace.burst}]
    /\ UNCHANGED <<toolbar, page>>

\* A format button of the open toolbar. Version A: the command is dispatched
\* and window.setTimeout(() => syncToolbarState(), 0) is not kept. Version B:
\* the command's update reaches the update listener.
InlineFormat ==
    /\ toolbar.mounted
    /\ OpenOf(toolbar)
    /\ IF toolbar.version = "A"
       THEN /\ timers' = [timers EXCEPT !.format = timers.format \cup {0}]
            /\ trace' = Traced("format", FALSE, page.selection)
            /\ UNCHANGED <<toolbar, page>>
       ELSE \E runs \in {~toolbar.isPointerDown /\ ~toolbar.isBubbleFocused} :
              /\ toolbar' = IF runs
                            THEN SetRect(toolbar,
                                   syncToolbarState(page.composing, page.selection,
                                                    page.selection = "range"), FALSE)
                            ELSE toolbar
              /\ trace' = Traced("docUpdate", runs, page.selection)
              /\ page' = AfterRender(page, toolbar')
              /\ UNCHANGED timers

\* Focus enters an element of the open toolbar, or leaves it. The focusin and
\* focusout listeners exist only if the effect found the toolbar's element;
\* version B's focusout listener also derives the state.
FocusIn ==
    /\ toolbar.mounted
    /\ OpenOf(toolbar)
    /\ ~page.focus
    /\ page' = [page EXCEPT !.focus = TRUE]
    /\ toolbar' = IF toolbar.focusListening
                  THEN [toolbar EXCEPT !.isBubbleFocused = TRUE] ELSE toolbar
    /\ trace' = Traced("focusIn", FALSE, page.selection)
    /\ UNCHANGED timers

FocusOut ==
    /\ toolbar.mounted
    /\ page.focus
    /\ \E runs \in {toolbar.focusListening /\ toolbar.version = "B"} :
         /\ toolbar' = IF ~toolbar.focusListening THEN toolbar
                       ELSE IF runs
                       THEN SetRect([toolbar EXCEPT !.isBubbleFocused = FALSE],
                              syncToolbarState(page.composing, page.selection,
                                               page.selection = "range"), FALSE)
                       ELSE [toolbar EXCEPT !.isBubbleFocused = FALSE]
         /\ trace' = Traced("focusOut", runs, page.selection)
    /\ page' = [page EXCEPT !.focus = FALSE]
    /\ UNCHANGED timers

\* Input-method composition starts or ends.
Composition(start) ==
    /\ toolbar.mounted
    /\ page.composing # start
    /\ page' = [page EXCEPT !.composing = start]
    /\ trace' = Traced("composition", FALSE, page.selection)
    /\ UNCHANGED <<toolbar, timers>>

\* The plugin unmounts: the listeners are removed; version A clears the
\* debounce timer, version B the timer of timerRef.
Unmount ==
    /\ toolbar.mounted
    /\ toolbar' = [toolbar EXCEPT !.mounted = FALSE]
    /\ timers' = IF toolbar.version = "A"
                 THEN [timers EXCEPT !.debounce = ClearTimeout(timers.debounce)]
                 ELSE [timers EXCEPT !.settle = ClearTimeout(timers.settle)]
    /\ page' = [page EXCEPT !.focus = FALSE]
    /\ trace' = [Traced("unmount", FALSE, page.selection) EXCEPT !.burst = {}]

\* The state after construction, for toolbar and overlay sources among the
\* given ones.
InitVersions(toolbarVersions, overlayVersions) ==
    /\ editorState = <<ParagraphNode(1)>>
    /\ dom = <<NewElement(ParagraphNode(1))>>
    /\ collapsedHeadingKeys = {}
    /\ hoverHeading = None
    /\ undoStack = <<>>
    /\ redoStack = <<>>
    /\ nextKey = 2
    /\ mounted = TRUE
    /\ HoverIdle
    /\ \E v \in toolbarVersions : ToolbarIdle(v)
    /\ ListIdle
    /\ CopyIdle
    /\ \E n \in overlayVersions : OverlayIdle(n)
    /\ DeriveIdle
    /\ LaterIdle
    /\ last = NoStep("init")

InitToolbar == InitVersions(Versions, {"N1"})

toolbarFrame == <<collapseVars, hoverHeading, hoverVars, otherVars>>

NextToolbar ==
    \/ \E sel \in Selections : SelectionChange(sel) /\ UNCHANGED toolbarFrame
    \/ DocUpdate /\ UNCHANGED toolbarFrame
    \/ \E inside \in BOOLEAN : PointerDown(inside) /\ UNCHANGED toolbarFrame
    \/ \E inside \in BOOLEAN : PointerUp(inside) /\ UNCHANGED toolbarFrame
    \/ \E which \in TimerKinds : FireTimer(which) /\ UNCHANGED toolbarFrame
    \/ Tick /\ UNCHANGED toolbarFrame
    \/ InlineFormat /\ UNCHANGED toolbarFrame
    \/ FocusIn /\ UNCHANGED toolbarFrame
    \/ FocusOut /\ UNCHANGED toolbarFrame
    \/ \E start \in BOOLEAN : Composition(start) /\ UNCHANGED toolbarFrame
    \/ Unmount /\ UNCHANGED toolbarFrame

SpecToolbar == InitToolbar /\ [][NextToolbar]_vars

\* ------------------------------------------------------------------ Delete
\* Enter at the end of the last block: a paragraph follows it.
InsertParagraph ==
    /\ Len(listDoc.children) < MaxBlocks
    /\ listDoc.nextKey <= MaxListKey
    /\ listDoc' = [children |-> Append(listDoc.children,
                                       ListParagraph(listDoc.nextKey, TextLen)),
                   nextKey |-> listDoc.nextKey + 1]
    /\ rangeSelection' = NoRange
    /\ lastDelete' = [NoDelete EXCEPT !.op = "insertParagraph"]

\* onBlockType("ul"): the paragraph becomes a list with one item.
MakeList(b) ==
    /\ listDoc.children[b].type = "paragraph"
    /\ listDoc.nextKey + 1 <= MaxListKey
    /\ listDoc' = [children |-> [listDoc.children EXCEPT ![b] =
                      ListNode(listDoc.nextKey,
                               <<ListItem(listDoc.nextKey + 1, listDoc.children[b].len)>>)],
                   nextKey |-> listDoc.nextKey + 2]
    /\ rangeSelection' = NoRange
    /\ lastDelete' = [NoDelete EXCEPT !.op = "makeList"]

\* Enter at the end of the last item of a list: an item follows it.
NewItem(b) ==
    /\ listDoc.children[b].type = "list"
    /\ Len(listDoc.children[b].items) < MaxListItems
    /\ listDoc.nextKey <= MaxListKey
    /\ listDoc' = [children |-> [listDoc.children EXCEPT ![b].items =
                      Append(@, ListItem(listDoc.nextKey, TextLen))],
                   nextKey |-> listDoc.nextKey + 1]
    /\ rangeSelection' = NoRange
    /\ lastDelete' = [NoDelete EXCEPT !.op = "newItem"]

\* The points of block b, in document order.
PointsOf(children, b) ==
    IF children[b].type = "paragraph"
    THEN {Point(b, 0, o) : o \in 0..children[b].len}
    ELSE UNION {{Point(b, i, o) : o \in 0..children[b].items[i].len} :
                  i \in 1..Len(children[b].items)}

Before(p, q) ==
    \/ p.item < q.item
    \/ p.item = q.item /\ p.offset < q.offset

\* The user selects a range of text inside one block.
SelectRange(anchor, focus) ==
    /\ anchor.block = focus.block
    /\ Before(anchor, focus)
    /\ rangeSelection' = [on |-> TRUE, anchor |-> anchor, focus |-> focus]
    /\ lastDelete' = [NoDelete EXCEPT !.op = "select"]
    /\ UNCHANGED listDoc

\* The characters of a block's text: of a paragraph, or of all items of a list.
TextOf(block) ==
    IF block.type = "paragraph" THEN block.len
    ELSE LET RECURSIVE Sum(_)
             Sum(n) == IF n = 0 THEN 0 ELSE block.items[n].len + Sum(n - 1)
         IN Sum(Len(block.items))

\* The characters between the two points of a range inside one block.
SelectedText(block, range) ==
    IF block.type = "paragraph" \/ range.anchor.item = range.focus.item
    THEN range.focus.offset - range.anchor.offset
    ELSE LET RECURSIVE Between(_)
             Between(n) == IF n >= range.focus.item THEN 0
                           ELSE block.items[n].len + Between(n + 1)
         IN (block.items[range.anchor.item].len - range.anchor.offset)
              + Between(range.anchor.item + 1) + range.focus.offset

\* The range covers all the text of its block.
CoversBlock(block, range) == SelectedText(block, range) = TextOf(block)

RemoveAtIndex(seq, p) == SubSeq(seq, 1, p - 1) \o SubSeq(seq, p + 1, Len(seq))

\* The blocks a range reaches from and to, in document order.
FirstBlock(range) ==
    IF range.anchor.block <= range.focus.block THEN range.anchor.block ELSE range.focus.block

LastBlock(range) ==
    IF range.anchor.block <= range.focus.block THEN range.focus.block ELSE range.anchor.block

\* The point of a range that comes first in the document, and the other one.
StartPoint(range) ==
    IF \/ range.anchor.block < range.focus.block
       \/ range.anchor.block = range.focus.block /\ Before(range.anchor, range.focus)
    THEN range.anchor ELSE range.focus

EndPoint(range) == IF StartPoint(range) = range.anchor THEN range.focus ELSE range.anchor

\* getTopLevelElementOrThrow().getKey() of each node of selection.getNodes(),
\* in document order: a paragraph gives its text node (or itself when it is
\* empty), a list gives the selected items and their text nodes, all with
\* the list as top-level element.
RECURSIVE TopsOfNodes(_, _, _)
TopsOfNodes(children, range, b) ==
    IF b > LastBlock(range) THEN <<>>
    ELSE LET block == children[b]
             from == IF b = FirstBlock(range) THEN StartPoint(range).item ELSE 1
             to == IF b = LastBlock(range) THEN EndPoint(range).item
                   ELSE Len(block.items)
             own == IF block.type = "paragraph" THEN <<block.key>>
                    ELSE [n \in 1..(2 * (to - from + 1)) |-> block.key]
         IN own \o TopsOfNodes(children, range, b + 1)

\* The loop over the nodes: a top-level key is taken the first time it is seen.
RECURSIVE DistinctTops(_, _, _)
DistinctTops(tops, seenKeys, topLevelNodes) ==
    IF tops = <<>> THEN topLevelNodes
    ELSE IF Head(tops) \in seenKeys
    THEN DistinctTops(Tail(tops), seenKeys, topLevelNodes)
    ELSE DistinctTops(Tail(tops), seenKeys \cup {Head(tops)},
                      Append(topLevelNodes, Head(tops)))

\* el.remove() for each element of topLevelNodes.
RECURSIVE RemoveEach(_, _)
RemoveEach(children, keys) ==
    IF keys = <<>> THEN children
    ELSE RemoveEach(SelectSeq(children, LAMBDA c : c.key # Head(keys)), Tail(keys))

\* A Delete that removes the anchor's block only.
RemoveAnchorBlock(children, range) == RemoveAtIndex(children, range.anchor.block)

\* onDelete of SelectionBubbleMenuPlugin.tsx: the top-level element of every
\* node of the selection is removed. The top-level element of a list item and
\* of its text is the list. A selection that is no range selection returns.
RemoveTopLevel(children, range) ==
    IF ~range.on THEN children
    ELSE LET topLevelNodes ==
                 DistinctTops(TopsOfNodes(children, range, FirstBlock(range)), {}, <<>>)
         IN IF topLevelNodes = <<>>
            THEN RemoveAtIndex(children, range.anchor.block)
            ELSE RemoveEach(children, topLevelNodes)

\* onDelete of the second source: selection.removeText(). The text between
\* the points goes; what is left of the focus item's text joins the anchor
\* item, and the items after the anchor item up to the focus item go.
RemoveText(children, range) ==
    LET b == range.anchor.block
        block == children[b]
    IN IF block.type = "paragraph"
       THEN [children EXCEPT ![b].len = @ - (range.focus.offset - range.anchor.offset)]
       ELSE LET i == range.anchor.item
                j == range.focus.item
                joined == ListItem(block.items[i].key,
                                   range.anchor.offset
                                     + (block.items[j].len - range.focus.offset))
            IN [children EXCEPT ![b].items =
                   SubSeq(@, 1, i - 1) \o <<joined>> \o SubSeq(@, j + 1, Len(@))]

\* The Delete button of the toolbar, which is open for a range selection.
Delete ==
    /\ rangeSelection.on
    /\ listDoc' = [listDoc EXCEPT !.children =
                     IF toolbar.version = "A"
                     THEN RemoveTopLevel(listDoc.children, rangeSelection)
                     ELSE RemoveText(listDoc.children, rangeSelection)]
    /\ rangeSelection' = NoRange
    /\ lastDelete' = [op |-> "delete", pre |-> listDoc.children, range |-> rangeSelection]

deleteFrame == <<collapseVars, hoverHeading, hoverVars, toolbarVars, copyVars, overlayVars,
                deriveVars, renderVars>>

\* The points of block b at the start of a text.
TextStarts(children, b) == {p \in PointsOf(children, b) : p.offset = 0}

\* The user selects a range from a point anywhere in the document to the
\* start of a text, in either direction.
SelectAcross(anchor, focus) ==
    /\ anchor # focus
    /\ rangeSelection' = [on |-> TRUE, anchor |-> anchor, focus |-> focus]
    /\ lastDelete' = [NoDelete EXCEPT !.op = "select"]
    /\ UNCHANGED listDoc

\* A click on a decorator or outside the text: no range selection is left.
Deselect ==
    /\ rangeSelection.on
    /\ rangeSelection' = NoRange
    /\ lastDelete' = [NoDelete EXCEPT !.op = "deselect"]
    /\ UNCHANGED listDoc

\* onDelete of SelectionBubbleMenuPlugin.tsx, with whatever selection there is.
OnDelete ==
    /\ lastDelete.op # "delete"
    /\ listDoc' = [listDoc EXCEPT !.children = RemoveTopLevel(@, rangeSelection)]
    /\ rangeSelection' = NoRange
    /\ lastDelete' = [op |-> "delete", pre |-> listDoc.children, range |-> rangeSelection]

NextRemove ==
    \/ InsertParagraph /\ UNCHANGED deleteFrame
    \/ \E b \in 1..Len(listDoc.children) : MakeList(b) /\ UNCHANGED deleteFrame
    \/ \E b \in 1..Len(listDoc.children) : NewItem(b) /\ UNCHANGED deleteFrame
    \/ \E a, b \in 1..Len(listDoc.children) :
          \E anchor \in PointsOf(listDoc.children, a), focus \in TextStarts(listDoc.children, b) :
             SelectAcross(anchor, focus) /\ UNCHANGED deleteFrame
    \/ Deselect /\ UNCHANGED deleteFrame
    \/ OnDelete /\ UNCHANGED deleteFrame

SpecRemove == InitVersions({"A"}, {"N1"}) /\ [][NextRemove]_vars

NextDelete ==
    \/ InsertParagraph /\ UNCHANGED deleteFrame
    \/ \E b \in 1..Len(listDoc.children) : MakeList(b) /\ UNCHANGED deleteFrame
    \/ \E b \in 1..Len(listDoc.children) : NewItem(b) /\ UNCHANGED deleteFrame
    \/ \E b \in 1..Len(listDoc.children) :
          \E anchor, focus \in PointsOf(listDoc.children, b) :
             SelectRange(anchor, focus) /\ UNCHANGED deleteFrame
    \/ Delete /\ UNCHANGED deleteFrame

SpecDelete == InitToolbar /\ [][NextDelete]_vars

\* -------------------------------------------------------------------- Copy
\* selection.getTextContent() of a range selection, by its length: the
\* selected characters and a line break between two items; "" if the
\* selection is no range selection.
CopyText(children, range) ==
    IF ~range.on THEN 0
    ELSE SelectedText(children[range.anchor.block], range)
           + (range.focus.item - range.anchor.item)

\* What the catch block of onCopy is not made for.
CatchesNothing(failure) == FALSE

\* try { ... } catch (error) { console.warn(...) }: the dispatch of the copy
\* command and the clipboard write are both inside the try block.
CopyCatches(failure) == failure \in {"dispatch", "write"}

\* What can go wrong in a Copy: nothing, the copy command throws, or the
\* clipboard write throws or is rejected.
CopyFailures == {"none", "dispatch", "write"}

\* onCopy. The second source dispatches COPY_COMMAND and writes the text to
\* the clipboard if no handler took the command; SelectionBubbleMenuPlugin.tsx
\* writes the text to the clipboard and dispatches nothing.
CopyOutcome(version, text, intercepts, failure) ==
    IF text = 0 THEN [NoCopy EXCEPT !.op = "copy"]
    ELSE LET dispatched == version = "B"
             thrown == dispatched /\ failure = "dispatch"
             handled == dispatched /\ ~thrown /\ intercepts
             writeCalled == ~thrown /\ ~handled
             failed == IF thrown THEN "dispatch"
                       ELSE IF writeCalled /\ failure = "write" THEN "write"
                       ELSE "none"
         IN [op |-> "copy", text |-> text, dispatched |-> dispatched,
             handled |-> handled, writeCalled |-> writeCalled, failure |-> failed,
             logged |-> failed # "none" /\ CopyCatches(failed),
             escaped |-> failed # "none" /\ ~CopyCatches(failed)]

\* The Copy button of the toolbar.
Copy(intercepts, failure) ==
    /\ \E done \in {CopyOutcome(toolbar.version,
                                CopyText(listDoc.children, rangeSelection),
                                intercepts, failure)} :
         /\ lastCopy' = done
         /\ clipboard' = IF done.writeCalled /\ done.failure = "none"
                         THEN [by |-> "writeText", len |-> done.text]
                         ELSE IF done.handled
                         THEN [by |-> "command", len |-> done.text]
                         ELSE clipboard
    /\ UNCHANGED <<listDoc, rangeSelection, lastDelete>>

copyFrame == <<collapseVars, hoverHeading, hoverVars, toolbarVars, overlayVars, deriveVars,
              renderVars>>

NextCopy ==
    \/ \E b \in 1..Len(listDoc.children) :
          MakeList(b) /\ lastCopy' = NoCopy /\ UNCHANGED <<clipboard, copyFrame>>
    \/ \E b \in 1..Len(listDoc.children) :
          NewItem(b) /\ lastCopy' = NoCopy /\ UNCHANGED <<clipboard, copyFrame>>
    \/ \E b \in 1..Len(listDoc.children) :
          \E anchor, focus \in PointsOf(listDoc.children, b) :
             SelectRange(anchor, focus) /\ lastCopy' = NoCopy
                /\ UNCHANGED <<clipboard, copyFrame>>
    \/ \E intercepts \in BOOLEAN, failure \in CopyFailures :
          Copy(intercepts, failure) /\ UNCHANGED copyFrame

SpecCopy == InitToolbar /\ [][NextCopy]_vars

\* ------------------------------------------------------ node action overlay
\* The position of the top-level block that the element with key k belongs
\* to (the block itself or, in a list, one of its items); 0 if there is none.
KeyBlock(children, k) ==
    LET hits == {p \in 1..Len(children) :
                   \/ children[p].key = k
                   \/ \E i \in 1..Len(children[p].items) : children[p].items[i].key = k}
    IN IF hits = {} THEN 0 ELSE CHOOSE p \in hits : TRUE

NoDomNode == [kind |-> "none", index |-> 0]

\* The node of an element of a block.
ElementNodeOf(children, target) ==
    IF target.kind = "element" /\ KeyBlock(children, target.key) # 0
    THEN [kind |-> "block", index |-> KeyBlock(children, target.key)]
    ELSE NoDomNode

\* A root element that resolves to the root node.
RootElementHasNode(children, target) ==
    IF target.kind = "root" THEN [kind |-> "root", index |-> 0]
    ELSE ElementNodeOf(children, target)

\* $getNearestNodeFromDOMNode(target): the node of the nearest element that
\* carries a node key. The root element carries none.
NearestNodeFromDOM(children, target) == ElementNodeOf(children, target)

\* getTopLevelElementOrThrow() returns for a node inside a block, and throws
\* for a node without a parent chain to the root (the root node itself).
HasTopLevel(node) == node.kind = "block"

\* The requestAnimationFrame callback of onPointerMove. A target that left the
\* page clears the overlay; a target outside the root keeps it; else the
\* target's top-level block is resolved: N1 shows the overlay if one of its
\* text nodes has text, N2 if it has an element.
OverlayEvaluate(version, children, target, info) ==
    IF target.kind = "element" /\ KeyBlock(children, target.key) = 0
    THEN [info |-> None, threw |-> FALSE, top |-> None, hadText |-> FALSE]
    ELSE IF target.kind = "gutter"
    THEN [info |-> info, threw |-> FALSE, top |-> None, hadText |-> FALSE]
    ELSE LET node == NearestNodeFromDOM(children, target)
         IN IF node.kind = "none"
            THEN [info |-> None, threw |-> FALSE, top |-> None, hadText |-> FALSE]
            ELSE IF ~HasTopLevel(node)
            THEN [info |-> info, threw |-> TRUE, top |-> None, hadText |-> FALSE]
            ELSE LET block == children[node.index]
                     hasText == TextOf(block) > 0
                 IN [info |-> IF version = "N1" /\ ~hasText THEN None ELSE block.key,
                     threw |-> FALSE, top |-> block.key, hadText |-> hasText]

\* clearHighlight runs in an effect of N2 when the overlay is null.
AfterOverlayRender(ov) ==
    [ov EXCEPT !.highlighted = IF ov.version = "N2" /\ ov.info = None THEN None ELSE @,
               !.onButton = @ /\ ov.info # None]

OverlayStep(op, target) ==
    [NoOverlayStep EXCEPT !.op = op, !.target = target, !.before = overlay.info]

\* The handle of the one frame that can be pending: each request follows the
\* cancellation of the frame requested before.
FrameHandle == 1

\* pointermove in the container. Over the button: its pointerenter handler
\* highlights the overlay's element, and onPointerMove returns. Elsewhere:
\* the button's pointerleave handler clears the highlight if the pointer was
\* on it, the pending frame is cancelled and a new one requested.
OverlayMove(t) ==
    /\ overlay.mounted
    /\ t.kind = "button" => overlay.info # None
    /\ t.kind = "element" => KeyBlock(listDoc.children, t.key) # 0
    /\ IF t.kind = "button"
       THEN overlay' = [overlay EXCEPT !.onButton = TRUE,
                                       !.highlighted = IF overlay.onButton THEN @
                                                       ELSE overlay.info]
       ELSE overlay' = [overlay EXCEPT
                          !.onButton = FALSE,
                          !.highlighted = IF overlay.onButton THEN None ELSE @,
                          !.rafId = FrameHandle,
                          !.pending = {[id |-> FrameHandle, target |-> t]}]
    /\ lastOverlay' = OverlayStep("move", t)
    /\ lastDelete' = NoDelete
    /\ UNCHANGED <<listDoc, rangeSelection>>

\* pointerleave of the container to a place outside it and the button.
OverlayLeave ==
    /\ overlay.mounted
    /\ lastOverlay.op \in {"move", "frame", "activate"}
    /\ overlay' = AfterOverlayRender(
                     [overlay EXCEPT !.info = None,
                                     !.highlighted = IF overlay.onButton THEN None ELSE @,
                                     !.onButton = FALSE])
    /\ lastOverlay' = OverlayStep("leave", NoTarget)
    /\ lastDelete' = NoDelete
    /\ UNCHANGED <<listDoc, rangeSelection>>

\* An animation frame: the pending callback runs.
OverlayFrame ==
    /\ overlay.pending # {}
    /\ \E f \in overlay.pending :
       \E result \in {OverlayEvaluate(overlay.version, listDoc.children, f.target,
                                      overlay.info)} :
         /\ overlay' = AfterOverlayRender([overlay EXCEPT !.info = result.info,
                                                          !.pending = {}])
         /\ lastOverlay' = [OverlayStep("frame", f.target) EXCEPT
                              !.threw = result.threw, !.top = result.top,
                              !.hadText = result.hadText]
    /\ lastDelete' = NoDelete
    /\ UNCHANGED <<listDoc, rangeSelection>>

\* The range from the start of the block's first text node to the end of its
\* last one: text nodes are the paragraph's text, or the texts of the items.
BlockRange(children, b) ==
    IF children[b].type = "paragraph"
    THEN [on |-> TRUE, anchor |-> Point(b, 0, 0), focus |-> Point(b, 0, children[b].len)]
    ELSE LET withText == {i \in 1..Len(children[b].items) : children[b].items[i].len > 0}
             first == CHOOSE i \in withText : \A j \in withText : i <= j
             last_ == CHOOSE i \in withText : \A j \in withText : i >= j
         IN [on |-> TRUE, anchor |-> Point(b, first, 0),
             focus |-> Point(b, last_, children[b].items[last_].len)]

\* Click, Enter or Space on the button: clearHighlight, then selectNodeText
\* (N1) or selectNode (N2) with the overlay's key. N2 calls editor.focus()
\* first, which puts a caret at the end of the root if there is no selection,
\* and selects the block as a node selection if it has no text node; N1
\* selects text or does nothing, and whether the new DOM selection gives the
\* editor focus depends on the browser.
Activate(browserFocuses) ==
    /\ overlay.mounted
    /\ overlay.info # None
    /\ \E b \in {KeyBlock(listDoc.children, overlay.info)} :
       \E isNull \in {~rangeSelection.on /\ overlay.nodeSelection = {} /\ ~overlay.caret} :
         /\ IF overlay.version = "N2"
            THEN IF b = 0
                 THEN /\ overlay' = [overlay EXCEPT !.highlighted = None, !.focused = TRUE,
                                                    !.caret = @ \/ isNull]
                      /\ UNCHANGED rangeSelection
                 ELSE IF TextOf(listDoc.children[b]) > 0
                 THEN /\ overlay' = [overlay EXCEPT !.highlighted = None, !.focused = TRUE,
                                                    !.caret = FALSE, !.nodeSelection = {}]
                      /\ rangeSelection' = BlockRange(listDoc.children, b)
                 ELSE /\ overlay' = [overlay EXCEPT !.highlighted = None, !.focused = TRUE,
                                                    !.caret = FALSE,
                                                    !.nodeSelection = {listDoc.children[b].key}]
                      /\ rangeSelection' = NoRange
            ELSE IF b # 0 /\ TextOf(listDoc.children[b]) > 0
                 THEN /\ overlay' = [overlay EXCEPT !.highlighted = None,
                                                    !.focused = @ \/ browserFocuses,
                                                    !.caret = FALSE, !.nodeSelection = {}]
                      /\ rangeSelection' = BlockRange(listDoc.children, b)
                 ELSE /\ overlay' = [overlay EXCEPT !.highlighted = None]
                      /\ UNCHANGED rangeSelection
         /\ lastOverlay' = [OverlayStep("activate", ButtonTarget) EXCEPT
                              !.top = IF b = 0 THEN None ELSE listDoc.children[b].key,
                              !.hadText = b # 0 /\ TextOf(listDoc.children[b]) > 0,
                              !.wasNull = isNull]
    /\ lastDelete' = NoDelete
    /\ UNCHANGED listDoc

\* The component unmounts: the pending frame is cancelled and the highlight
\* cleared.
UnmountOverlay ==
    /\ overlay.mounted
    /\ overlay' = [overlay EXCEPT !.mounted = FALSE, !.info = None, !.pending = {},
                                  !.highlighted = None, !.onButton = FALSE]
    /\ lastOverlay' = OverlayStep("unmount", NoTarget)
    /\ lastDelete' = NoDelete
    /\ UNCHANGED <<listDoc, rangeSelection>>

\* An edit of the document: the editor has focus and a caret afterwards.
AfterEdit(op) ==
    /\ overlay' = [overlay EXCEPT !.nodeSelection = {}, !.caret = TRUE, !.focused = TRUE]
    /\ lastOverlay' = OverlayStep(op, NoTarget)

OverlayTargets ==
    {ButtonTarget, GutterTarget, RootTarget} \cup {ElementTarget(k) : k \in 1..MaxListKey}

overlayFrame == <<collapseVars, hoverHeading, hoverVars, toolbarVars, copyVars, deriveVars,
                 renderVars>>

\* Edits are followed while the document's keys are among the first MaxKey.
NextOverlay ==
    \/ /\ listDoc.nextKey <= MaxKey
       /\ InsertParagraph /\ AfterEdit("edit") /\ UNCHANGED overlayFrame
    \/ /\ listDoc.nextKey <= MaxKey
       /\ \E b \in 1..Len(listDoc.children) :
             MakeList(b) /\ AfterEdit("edit") /\ UNCHANGED overlayFrame
    \/ Delete /\ AfterEdit("delete") /\ UNCHANGED overlayFrame
    \/ \E t \in OverlayTargets : OverlayMove(t) /\ UNCHANGED overlayFrame
    \/ OverlayLeave /\ UNCHANGED overlayFrame
    \/ OverlayFrame /\ UNCHANGED overlayFrame
    \/ \E browserFocuses \in BOOLEAN : Activate(browserFocuses) /\ UNCHANGED overlayFrame
    \/ UnmountOverlay /\ UNCHANGED overlayFrame

InitOverlay == InitVersions(Versions, OverlayVersions)

SpecOverlay == InitOverlay /\ [][NextOverlay]_vars

\* ------------------------------------------------- toolbar state derivation
HeadingTags == {"h1", "h2", "h3", "h4", "h5", "h6"}

ListTypes == {"number", "bullet", "check"}

Element(type, tag, listType, firstChild, childTag) ==
    [type |-> type, tag |-> tag, listType |-> listType, firstChild |-> firstChild,
     childTag |-> childTag]

\* The top-level elements the anchor of a range selection can be in, with the
\* nodes the editor registers: a heading, a list (of list items), a quote, a
\* code block or a paragraph. A quote that came in as pasted HTML can hold
\* blocks: a heading or a paragraph as its first child.
Elements ==
    {Element("heading", t, "none", c, "none") : t \in HeadingTags, c \in {"text", "none"}}
    \cup {Element("list", "none", l, "listitem", "none") : l \in ListTypes}
    \cup {Element("quote", "none", "none", c, "none") : c \in {"text", "none", "paragraph"}}
    \cup {Element("quote", "none", "none", "heading", t) : t \in HeadingTags}
    \cup {Element(y, "none", "none", c, "none") : y \in {"code", "paragraph"},
                                                  c \in {"text", "none"}}

\* The block type given to setBlockType for the anchor's top-level element.
\* Version B also takes a heading that is the element's first child.
BlockTypeOf(version, element) ==
    LET heading == IF element.type = "heading" THEN element.tag
                   ELSE IF version = "B" /\ element.firstChild = "heading"
                   THEN element.childTag
                   ELSE "none"
    IN IF heading # "none"
       THEN IF heading \in {"h1", "h2", "h3"} THEN heading ELSE "paragraph"
       ELSE IF element.type = "list"
       THEN IF element.listType = "number" THEN "ol" ELSE "ul"
       ELSE IF element.type = "quote" THEN "quote"
       ELSE IF element.type = "code" THEN "code"
       ELSE "paragraph"

Rect(x, y, width, height) ==
    [x |-> x, y |-> y, width |-> width, height |-> height, isNull |-> FALSE]

\* getRangeAt(0).getBoundingClientRect(), or no range at all (NoRect).
DomRangeRects == {NoRect, Rect(1, 1, 0, 0), Rect(1, 1, 2, 1), Rect(1, 2, 2, 1)}

\* (r.width || r.height) ? r : null
ComputedRect(r) == IF r.isNull \/ (r.width = 0 /\ r.height = 0) THEN NoRect ELSE r

rectsAreEqual(a, b) ==
    IF a.isNull \/ b.isNull THEN a.isNull = b.isNull
    ELSE a.x = b.x /\ a.y = b.y /\ a.width = b.width /\ a.height = b.height

formatStatesAreEqual(a, b) ==
    /\ a["bold"] = b["bold"]
    /\ a["italic"] = b["italic"]
    /\ a["underline"] = b["underline"]
    /\ a["strikethrough"] = b["strikethrough"]
    /\ a["code"] = b["code"]
    /\ a["subscript"] = b["subscript"]
    /\ a["superscript"] = b["superscript"]

\* selection.hasFormat(f) for the seven formats.
FormatInputs ==
    {[f \in Formats |-> f \in on] :
        on \in {{}, {"bold"}, {"bold", "superscript"}}}

\* syncToolbarState with the editor composing: setSelectionRect(null).
DeriveComposing ==
    /\ derivation' = [derivation EXCEPT !.selectionRect = NoRect]
    /\ lastDerive' = [NoDerive EXCEPT !.op = "derive", !.composing = TRUE,
                                      !.storedRect = derivation.selectionRect,
                                      !.storedFormat = derivation.formatState,
                                      !.keptRect = derivation.selectionRect.isNull]

\* syncToolbarState without a non-collapsed range selection: no rectangle,
\* paragraph, and every flag false: a new object in version A, the one
\* initialFormatState object in version B.
DeriveNoRange ==
    /\ derivation' = [blockType |-> "paragraph", formatState |-> initialFormatState,
                      formatIsInitial |-> toolbar.version = "B", selectionRect |-> NoRect]
    /\ lastDerive' = [NoDerive EXCEPT !.op = "derive",
                                      !.storedRect = derivation.selectionRect,
                                      !.storedFormat = derivation.formatState,
                                      !.keptRect = derivation.selectionRect.isNull,
                                      !.keptFormat = toolbar.version = "B"
                                                     /\ derivation.formatIsInitial]

\* syncToolbarState with a non-collapsed range selection. Version A gives
\* the rectangle it read and a new format object to the setters; version B
\* keeps the stored values if rectsAreEqual / formatStatesAreEqual say so.
DeriveRange(element, domRect, flags) ==
    \E computed \in {ComputedRect(domRect)} :
    \E keepRect \in {IF toolbar.version = "B"
                     THEN rectsAreEqual(derivation.selectionRect, computed)
                     ELSE derivation.selectionRect.isNull /\ computed.isNull} :
    \E keepFormat \in {toolbar.version = "B"
                       /\ formatStatesAreEqual(derivation.formatState, flags)} :
       /\ derivation' = [blockType |-> BlockTypeOf(toolbar.version, element),
                         formatState |-> IF keepFormat THEN derivation.formatState ELSE flags,
                         formatIsInitial |-> keepFormat /\ derivation.formatIsInitial,
                         selectionRect |-> IF keepRect THEN derivation.selectionRect
                                           ELSE computed]
       /\ lastDerive' = [op |-> "derive", composing |-> FALSE, ranged |-> TRUE,
                         element |-> element, computedRect |-> computed, flags |-> flags,
                         storedRect |-> derivation.selectionRect,
                         storedFormat |-> derivation.formatState,
                         keptRect |-> keepRect, keptFormat |-> keepFormat]

deriveFrame == <<collapseVars, hoverHeading, hoverVars, toolbarVars, listVars, copyVars,
                 overlayVars, renderVars>>

NextDerive ==
    \/ DeriveComposing /\ UNCHANGED deriveFrame
    \/ DeriveNoRange /\ UNCHANGED deriveFrame
    \/ \E element \in Elements, domRect \in DomRangeRects, flags \in FormatInputs :
          DeriveRange(element, domRect, flags) /\ UNCHANGED deriveFrame

SpecDerive == InitToolbar /\ [][NextDerive]_vars

\* ------------------------------------------- CollapsedStateNode and its Sets
\* A Set of JavaScript is kept as the sequence of its elements in insertion
\* order, without duplicates; a Set object is a position of the heap.
MaxSets == 5

SetHas(set, k) == \E i \in 1..Len(set) : set[i] = k

SetAdd(set, k) == IF SetHas(set, k) THEN set ELSE Append(set, k)

SetDelete(set, k) == SelectSeq(set, LAMBDA e : e # k)

\* new Set(iterable)
RECURSIVE NewSet(_)
NewSet(iterable) ==
    IF iterable = <<>> THEN <<>>
    ELSE SetAdd(NewSet(SubSeq(iterable, 1, Len(iterable) - 1)), iterable[Len(iterable)])

\* The elements of a Set, as a set.
Elems(set) == {set[i] : i \in 1..Len(set)}

\* A toggle that only ever adds.
SetToggleAdds(set, k) == SetAdd(set, k)

\* toggle on the writable node's set: delete if present, else add.
SetToggle(set, k) == IF SetHas(set, k) THEN SetDelete(set, k) ELSE SetAdd(set, k)

\* exportJSON: keys: Array.from(this.__keys).
KeysToJSON(set) == [type |-> "collapsed-state", version |-> 1, hasKeys |-> TRUE, keys |-> set]

\* An import that drops the keys.
ImportDropsKeys(json) == <<>>

\* importJSON: node.__keys = new Set(json.keys ?? []).
KeysFromJSON(json) == NewSet(IF json.hasKeys THEN json.keys ELSE <<>>)

\* Serialised nodes that did not come from exportJSON: without the keys
\* field, and with a key twice.
ForeignJSON ==
    {[type |-> "collapsed-state", version |-> 1, hasKeys |-> FALSE, keys |-> <<>>],
     [type |-> "collapsed-state", version |-> 1, hasKeys |-> TRUE, keys |-> <<1, 2, 1>>]}

Latest == nodes.versions[Len(nodes.versions)]

\* A clone that takes the Set object of the node it is cloned from.
CloneSharesKeys(heap, ref) == ref

\* clone: cloned.__keys = new Set(node.__keys), a new Set object.
CloneKeys(heap, ref) == Len(heap) + 1

\* The heap once the clone of the node holding `ref` holds `cloned`.
HeapWith(heap, ref, cloned) ==
    IF cloned > Len(heap) THEN Append(heap, NewSet(heap[ref])) ELSE heap

\* toggle(k) in an update and its commit: getWritable clones the committed
\* node, the clone's set is changed in place, the clone is the record of the
\* new editor state.
NodeToggle(k) ==
    /\ Len(nodes.heap) < MaxSets
    /\ \E cloned \in {CloneKeys(nodes.heap, Latest)} :
       \E heap \in {[HeapWith(nodes.heap, Latest, cloned) EXCEPT ![cloned] = SetToggle(@, k)]} :
          /\ nodes' = [nodes EXCEPT !.heap = heap,
                                    !.versions = Append(@, cloned),
                                    !.frozen = Append(@, Elems(heap[cloned]))]
          /\ lastNode' = [NoNodeStep EXCEPT !.op = "toggle", !.key = k,
                             !.before = Elems(nodes.heap[Latest]),
                             !.earlier = lastNode.before,
                             !.twice = lastNode.op = "toggle" /\ lastNode.key = k,
                             !.after = heap[cloned]]

\* setKeys(keys) with the set the controller holds, and its commit:
\* self.__keys = new Set(keys) on the writable node.
NodeSetKeys ==
    /\ Len(nodes.heap) < MaxSets
    /\ nodes.cache # None
    /\ nodes' = [nodes EXCEPT !.heap = Append(@, NewSet(nodes.heap[nodes.cache])),
                              !.versions = Append(@, Len(nodes.heap) + 1),
                              !.frozen = Append(@, Elems(nodes.heap[nodes.cache]))]
    /\ lastNode' = [NoNodeStep EXCEPT !.op = "setKeys"]

\* getKeys(): new Set(this.getLatest().__keys), which the controller keeps.
NodeGetKeys ==
    /\ Len(nodes.heap) < MaxSets
    /\ nodes' = [nodes EXCEPT !.heap = Append(@, NewSet(nodes.heap[Latest])),
                              !.cache = Len(nodes.heap) + 1]
    /\ lastNode' = [NoNodeStep EXCEPT !.op = "getKeys"]

\* reapplyAllCollapses deletes a key from the set it was given.
NodePrune(k) ==
    /\ nodes.cache # None
    /\ SetHas(nodes.heap[nodes.cache], k)
    /\ nodes' = [nodes EXCEPT !.heap[nodes.cache] = SetDelete(@, k)]
    /\ lastNode' = [NoNodeStep EXCEPT !.op = "prune", !.key = k]

\* importJSON(exportJSON(node)) for the latest node.
NodeRoundTrip ==
    /\ \E json \in {KeysToJSON(nodes.heap[Latest])} :
          lastNode' = [NoNodeStep EXCEPT !.op = "roundTrip",
                                         !.before = Elems(nodes.heap[Latest]),
                                         !.json = json.keys,
                                         !.after = KeysFromJSON(json)]
    /\ UNCHANGED nodes

\* importJSON of a serialised node from elsewhere.
NodeImport(json) ==
    /\ lastNode' = [NoNodeStep EXCEPT !.op = IF json.hasKeys THEN "import" ELSE "importLacking",
                                      !.json = json.keys,
                                      !.after = KeysFromJSON(json)]
    /\ UNCHANGED nodes

nodeFrame == <<collapseVars, hoverHeading, hoverVars, toolbarVars, listVars, copyVars,
               overlayVars, deriveVars, shown, marks, track, highlight>>

NextNode ==
    \/ \E k \in 1..MaxKey : NodeToggle(k) /\ UNCHANGED nodeFrame
    \/ NodeSetKeys /\ UNCHANGED nodeFrame
    \/ NodeGetKeys /\ UNCHANGED nodeFrame
    \/ \E k \in 1..MaxKey : NodePrune(k) /\ UNCHANGED nodeFrame
    \/ NodeRoundTrip /\ UNCHANGED nodeFrame
    \/ \E json \in ForeignJSON : NodeImport(json) /\ UNCHANGED nodeFrame

SpecNode == InitVersions({"A"}, {"N1"}) /\ [][NextNode]_vars

\* ------------------------------------------- the original-display marker
\* Children of the root hideElement and tryRestoreElements are applied to.
MaxChildren == 3

\* Inline display values an element comes with.
Displays == {"", "block", "none"}

\* Root children that no pass has touched, each with an inline display of its
\* own; marks.own is the display an element had before it was first hidden.
InitMarker ==
    /\ editorState = [p \in 1..MaxChildren |-> ParagraphNode(p)]
    /\ dom \in {[p \in 1..MaxChildren |-> [NewElement(ParagraphNode(p)) EXCEPT !.display = d[p]]]
                : d \in [1..MaxChildren -> Displays]}
    /\ collapsedHeadingKeys = {}
    /\ hoverHeading = None
    /\ undoStack = <<>>
    /\ redoStack = <<>>
    /\ nextKey = MaxChildren + 1
    /\ mounted = TRUE
    /\ HoverIdle /\ ToolbarIdle("A") /\ ListIdle /\ CopyIdle /\ OverlayIdle("N1") /\ DeriveIdle
    /\ shown = NoButton
    /\ NodeIdle
    /\ track = Untracked("overlay", [b \in 1..MaxTrackBlocks |-> 1])
    /\ highlight = Unhighlighted("N1")
    /\ marks = [NoMarks EXCEPT !.own = [p \in 1..MaxChildren |-> dom[p].display]]
    /\ last = NoStep("init")

\* hideElement(el) on the child at p.
MarkerHide(p) ==
    /\ dom' = [dom EXCEPT ![p] = HideElement(@)]
    /\ marks' = [marks EXCEPT !.op = "hide",
                              !.own[p] = IF p \in marks.hidden THEN @ ELSE dom[p].display,
                              !.again = IF p \in marks.hidden THEN @ \cup {p} ELSE @,
                              !.hidden = @ \cup {p}]

\* tryRestoreElements(root).
MarkerRestore ==
    /\ dom' = TryRestoreElements(dom)
    /\ marks' = [marks EXCEPT !.op = "restore", !.hidden = {}, !.was = marks.hidden,
                              !.again = IF marks.hidden = {} THEN {} ELSE @]

markerFrame == <<editorState, collapsedHeadingKeys, undoStack, redoStack, nextKey, mounted,
                 last, hoverHeading, hoverVars, toolbarVars, listVars, copyVars, overlayVars,
                 deriveVars, shown, nodeVars, track, highlight>>

NextMarker ==
    \/ \E p \in 1..MaxChildren : MarkerHide(p) /\ UNCHANGED markerFrame
    \/ MarkerRestore /\ UNCHANGED markerFrame

SpecMarker == InitMarker /\ [][NextMarker]_vars

\* ------------------------------------------------------- position tracking
\* The position-tracking effects of the node action overlay ("overlay") and
\* of the heading toggle ("heading"). Blocks are stacked in a container of
\* fixed size that scrolls; lengths are in half pixels.
TrackVersions == {"overlay", "heading"}

ContainerSize == 100

rightOffset == 12

\* Distance of block b from the top of the container's content.
RECURSIVE OffsetOf(_, _)
OffsetOf(heights, b) == IF b = 1 THEN 0 ELSE OffsetOf(heights, b - 1) + heights[b - 1]

\* computeOverlay(key): top = rect.top - containerRect.top + rect.height / 2,
\* left = containerRect.width - rightOffset. For the heading toggle, the rect
\* of el.getBoundingClientRect().
ComputeInfo(t, b) ==
    IF t.version = "overlay"
    THEN [key |-> b,
          top |-> 2 * (OffsetOf(t.heights, b) - t.scroll) + t.heights[b],
          left |-> ContainerSize - rightOffset]
    ELSE [key |-> b,
          top |-> 2 * (OffsetOf(t.heights, b) - t.scroll),
          height |-> 2 * t.heights[b]]

\* updatePosition / update: setState(prev => prev ? <a new object> : prev);
\* a new state object makes React render and run the effect again.
UpdatePosition(t) ==
    IF t.info = NoInfo THEN t
    ELSE [t EXCEPT !.info = ComputeInfo(t, t.info.key), !.stale = TRUE]

\* The observer has an active observation: the size of a target differs from
\* the size last reported for it (0 when observe() was just called).
ObservationActive(t) ==
    /\ t.observer.el # None
    /\ \/ t.observer.lastEl # t.heights[t.observer.el]
       \/ t.version = "overlay" /\ t.observer.lastContainer # ContainerSize

\* The frame after a pointer move over block b: the state is set to a new
\* object for b.
TrackHover(b) ==
    /\ track.events < MaxEvents
    /\ track' = [track EXCEPT !.events = @ + 1, !.info = ComputeInfo(track, b),
                              !.stale = TRUE]

\* The pointer leaves the container: setState(null).
TrackLeave ==
    /\ track.events < MaxEvents
    /\ track' = [track EXCEPT !.events = @ + 1, !.info = NoInfo,
                              !.stale = @ \/ track.info # NoInfo]

\* The container scrolls; the scroll listener, if the effect attached one,
\* updates the position.
TrackScroll(to) ==
    /\ track.events < MaxEvents
    /\ to # track.scroll
    /\ \E t \in {[track EXCEPT !.events = @ + 1, !.scroll = to]} :
          track' = IF t.observer.el # None THEN UpdatePosition(t) ELSE t

\* A block gets another height (its text wraps differently).
TrackResize(b, h) ==
    /\ track.events < MaxEvents
    /\ h # track.heights[b]
    /\ track' = [track EXCEPT !.events = @ + 1, !.heights[b] = h]

\* The browser delivers the observer's notification: the sizes are recorded
\* as reported and the callback updates the position.
TrackNotify ==
    /\ ObservationActive(track)
    /\ track' = UpdatePosition([track EXCEPT
                    !.observer.lastEl = track.heights[track.observer.el],
                    !.observer.lastContainer =
                        IF track.version = "overlay" THEN ContainerSize ELSE @])

\* React runs the effect for the new state object: the cleanup disconnects
\* the old observer; with a state, a new ResizeObserver observes the
\* element (and, for the overlay, the container).
TrackEffect ==
    /\ track.stale
    /\ track' = [track EXCEPT !.stale = FALSE,
                              !.observer = IF track.info = NoInfo THEN NoObserver
                                           ELSE [NoObserver EXCEPT !.el = track.info.key]]

InitTrack ==
    /\ editorState = <<ParagraphNode(1)>>
    /\ dom = <<NewElement(ParagraphNode(1))>>
    /\ collapsedHeadingKeys = {}
    /\ hoverHeading = None
    /\ undoStack = <<>>
    /\ redoStack = <<>>
    /\ nextKey = 2
    /\ mounted = TRUE
    /\ HoverIdle /\ ToolbarIdle("A") /\ ListIdle /\ CopyIdle /\ OverlayIdle("N1") /\ DeriveIdle
    /\ shown = NoButton
    /\ NodeIdle
    /\ marks = NoMarks
    /\ highlight = Unhighlighted("N1")
    /\ track \in {Untracked(v, h) : v \in TrackVersions,
                                    h \in [1..MaxTrackBlocks -> 1..MaxHeight]}
    /\ last = NoStep("init")

trackFrame == <<collapseVars, hoverHeading, hoverVars, toolbarVars, listVars, copyVars,
                overlayVars, deriveVars, shown, nodeVars, marks, highlight>>

NextTrack ==
    \/ \E b \in 1..MaxTrackBlocks : TrackHover(b) /\ UNCHANGED trackFrame
    \/ TrackLeave /\ UNCHANGED trackFrame
    \/ \E to \in 0..MaxScroll : TrackScroll(to) /\ UNCHANGED trackFrame
    \/ \E b \in 1..MaxTrackBlocks, h \in 1..MaxHeight : TrackResize(b, h) /\ UNCHANGED trackFrame
    \/ TrackNotify /\ UNCHANGED trackFrame
    \/ TrackEffect /\ UNCHANGED trackFrame

\* The browser delivers pending notifications with every rendering update
\* and React runs the effects of every commit; the environment's events are
\* under no obligation.
SpecTrack ==
    /\ InitTrack
    /\ [][NextTrack]_vars
    /\ WF_vars(TrackNotify /\ UNCHANGED trackFrame)
    /\ WF_vars(TrackEffect /\ UNCHANGED trackFrame)

\* ------------------------------------------------------ node-hover highlight
\* highlight.elements holds the element of every block, highlight.classed
\* the elements (in the document or replaced) with class is-node-hovered,
\* highlight.ref is highlightedElRef.current and highlight.info the element
\* of the hover state the button was rendered for; highlight.from is the
\* element the last applyHighlight found highlighted, if it was another one.

\* clearHighlight
ClearHighlight(h) ==
    IF h.ref # None THEN [h EXCEPT !.classed = @ \ {h.ref}, !.ref = None] ELSE h

\* A highlight that leaves the class on the element highlighted before.
ApplyKeepsPrevious(h, el) ==
    IF h.ref = el THEN h ELSE [h EXCEPT !.classed = @ \cup {el}, !.ref = el]

\* applyHighlight(el)
ApplyHighlight(h, el) ==
    IF h.ref = el THEN h
    ELSE [ClearHighlight(h) EXCEPT !.classed = @ \cup {el}, !.ref = el]

\* The frame after a pointer move over block b sets the hover state.
HighlightHover(b) ==
    /\ highlight.mounted
    /\ highlight' = [highlight EXCEPT !.info = highlight.elements[b], !.from = None]

\* The hover state is set to null; part_000 has an effect that clears the
\* highlight when there is no overlay.
HighlightHoverNone ==
    /\ highlight.mounted
    /\ highlight.info # None
    /\ highlight' = IF highlight.version = "N2"
                    THEN ClearHighlight([highlight EXCEPT !.info = None, !.from = None])
                    ELSE [highlight EXCEPT !.info = None, !.from = None]

\* onPointerEnter of the button.
HighlightEnter ==
    /\ highlight.mounted
    /\ highlight.info # None
    /\ highlight' = [ApplyHighlight(highlight, highlight.info) EXCEPT
                        !.from = IF highlight.ref # highlight.info THEN highlight.ref ELSE None]

\* onPointerLeave, onClick and onKeyDown of the button: clearHighlight().
HighlightClear ==
    /\ highlight.mounted
    /\ highlight.info # None
    /\ highlight' = [ClearHighlight(highlight) EXCEPT !.from = None]

\* An update changes the type of block b: the reconciler replaces its
\* element with a new one; the old one keeps its classes.
HighlightReplace(b) ==
    /\ highlight.nextEl <= MaxElements
    /\ highlight' = [highlight EXCEPT !.elements[b] = highlight.nextEl, !.nextEl = @ + 1,
                                      !.from = None]

\* The component unmounts: the cleanup runs clearHighlight().
HighlightUnmount ==
    /\ highlight.mounted
    /\ highlight' = [ClearHighlight(highlight) EXCEPT !.mounted = FALSE, !.info = None,
                                                      !.from = None]

InitHighlight ==
    /\ editorState = <<ParagraphNode(1)>>
    /\ dom = <<NewElement(ParagraphNode(1))>>
    /\ collapsedHeadingKeys = {}
    /\ hoverHeading = None
    /\ undoStack = <<>>
    /\ redoStack = <<>>
    /\ nextKey = 2
    /\ mounted = TRUE
    /\ HoverIdle /\ ToolbarIdle("A") /\ ListIdle /\ CopyIdle /\ OverlayIdle("N1") /\ DeriveIdle
    /\ shown = NoButton
    /\ NodeIdle
    /\ marks = NoMarks
    /\ track = Untracked("overlay", [b \in 1..MaxTrackBlocks |-> 1])
    /\ highlight \in {Unhighlighted(v) : v \in OverlayVersions}
    /\ last = NoStep("init")

highlightFrame == <<collapseVars, hoverHeading, hoverVars, toolbarVars, listVars, copyVars,
                    overlayVars, deriveVars, shown, nodeVars, marks, track>>

NextHighlight ==
    \/ \E b \in 1..MaxHighlightBlocks : HighlightHover(b) /\ UNCHANGED highlightFrame
    \/ HighlightHoverNone /\ UNCHANGED highlightFrame
    \/ HighlightEnter /\ UNCHANGED highlightFrame
    \/ HighlightClear /\ UNCHANGED highlightFrame
    \/ \E b \in 1..MaxHighlightBlocks : HighlightReplace(b) /\ UNCHANGED highlightFrame
    \/ HighlightUnmount /\ UNCHANGED highlightFrame

SpecHighlight == InitHighlight /\ [][NextHighlight]_vars

\* ------------------------------------------------------------------ claims
IsHeadingAt(state, p) == state[p].type = "heading"

LevelAt(state, p) == TagLevel(state[p].tag)

\* The section rule, stated over positions: child j lies in the section body
\* of a collapsed heading i < j when no heading of level <= level(i) occurs
\* among the children i+1..j.
InSectionOf(state, i, j) ==
    /\ i < j
    /\ IsHeadingAt(state, i)
    /\ \A k \in (i + 1)..j : ~(IsHeadingAt(state, k) /\ LevelAt(state, k) <= LevelAt(state, i))

DerivedHidden(state, K) ==
    {state[j].key : j \in {q \in 1..Len(state) :
        \E i \in 1..Len(state) : state[i].key \in K /\ InSectionOf(state, i, q)}}

\* Every element is hidden by the controller exactly when its key is in H;
\* a hidden element has display none, and an element outside H shows its own
\* display (the record's span is created with display none and keeps it).
HiddenExactly(state, children, H) ==
    /\ Len(children) = Len(state)
    /\ \A p \in 1..Len(children) :
        /\ children[p].key = state[p].key
        /\ children[p].marked <=> (state[p].key \in H)
        /\ state[p].key \in H => children[p].display = "none"
        /\ state[p].key \notin H => children[p].display = NewElement(state[p]).display

\* C1: after a re-apply pass over the root children with collapsed set K, the
\* hidden children are exactly those in the section body of a heading whose
\* key is in K; every other child is visible, the collapsed heading included
\* unless an earlier collapsed section covers it.
C1_PassHidesSections ==
    last.op = "pass" => HiddenExactly(editorState, dom, DerivedHidden(editorState, last.pre.cache))

\* A pass for a collapsed h2 under an expanded h1 hid the deeper h3 after it,
\* left the h2's own line visible and restored it from an earlier pass.
C1_Witness ==
    /\ last.op = "pass"
    /\ Len(editorState) = 3
    /\ editorState[1].tag = "h1" /\ editorState[2].tag = "h2" /\ editorState[3].tag = "h3"
    /\ last.pre.cache = {2}
    /\ HiddenKeys(last.pre.dom) = {2, 3}
    /\ HiddenKeys(dom) = {3}

IsScenario == Len(editorState) >= 4 /\ SubSeq(editorState, 1, 4) = ScenarioDoc

ScenarioHidden == HiddenKeys(dom) \cap (1..4)

\* C2 as stated: in H1 A, H2 B, H2 C, P, collapsing only A hides exactly
\* B, C and P, and collapsing only B hides exactly C and P.
C2_AsStated ==
    (last.op = "pass" /\ IsScenario) =>
        /\ last.pre.cache = {1} => ScenarioHidden = {2, 3, 4}
        /\ last.pre.cache = {2} => ScenarioHidden = {3, 4}

\* C2 (amended): in H1 A, H2 B, H2 C, P, collapsing only A hides exactly
\* B, C and P; collapsing only B hides nothing, because C is a heading of
\* B's own level and ends B's section at once.
C2_Scenario ==
    (last.op = "pass" /\ IsScenario) =>
        /\ last.pre.cache = {1} =>
              /\ ScenarioHidden = {2, 3, 4}
              /\ \A p \in 2..4 : dom[p].display = "none"
              /\ dom[1].display = ""
        /\ last.pre.cache = {2} =>
              /\ ScenarioHidden = {}
              /\ \A p \in 1..4 : dom[p].display = ""

C2_Witness ==
    /\ last.op = "pass" /\ IsScenario
    /\ last.pre.cache = {2}
    /\ HiddenKeys(last.pre.dom) = {2, 3, 4}
    /\ HiddenKeys(dom) = {}

HeadingKeys(state) == {state[p].key : p \in {q \in 1..Len(state) : state[q].type = "heading"}}

\* C4: when a pass returns, the collapsed set it was given holds exactly its
\* original members that are keys of top-level headings: every other
\* identifier is gone and no valid one is.
C4_PassPrunes ==
    last.op = "pass" =>
        collapsedHeadingKeys = {k \in last.pre.cache : k \in HeadingKeys(editorState)}

\* A pass dropped a stale identifier and a paragraph's key and kept a heading's.
C4_Witness ==
    /\ last.op = "pass" /\ last.n = 1
    /\ Len(editorState) = 2
    /\ editorState[1].type = "heading" /\ editorState[2].type = "paragraph"
    /\ last.pre.cache = {1, 2, 3}
    /\ collapsedHeadingKeys = {1}

\* C7: a second pass right after a first one, on the same document and the
\* same collapsed set, leaves the hidden elements, their original-display
\* markers and the collapsed set as the first pass left them.
C7_PassIdempotent ==
    (last.op = "pass" /\ last.n = 2) =>
        /\ dom = last.pre.dom
        /\ collapsedHeadingKeys = last.pre.cache
        /\ HiddenKeys(dom) = HiddenKeys(last.pre.dom)

\* Two passes ran, the first of which changed both the hidden set and the
\* collapsed set.
C7_Witness ==
    /\ last.op = "pass" /\ last.n = 2
    /\ HiddenKeys(last.mid.dom) # HiddenKeys(last.pre.dom)
    /\ last.mid.cache # last.pre.cache
    /\ HiddenKeys(last.pre.dom) # {}

\* ------------------------------------------- claims on the edited document
RecordCount(state) == Cardinality({p \in 1..Len(state) : state[p].type = "collapsed-state"})

\* The record as the document holds it: whether there is one, and its keys.
RecordOf(state) == <<GetCollapsedStateNode(state) # None, RecordKeys(state)>>

\* C3 as stated: after the passes of any update, the record of the current
\* editor state holds no identifier other than keys of top-level headings.
C3_AsStated == RecordKeys(editorState) \subseteq HeadingKeys(editorState)

ElementState(children, k) ==
    IF \E p \in 1..Len(children) : children[p].key = k
    THEN LET el == children[CHOOSE p \in 1..Len(children) : children[p].key = k]
         IN <<el.display, el.marked, el.origDisplay>>
    ELSE <<"absent", FALSE, "">>

ElementKeys(children) == {children[p].key : p \in 1..Len(children)}

\* C6: two toggle commands for the same key with no other document change
\* in between bring back the record's key set and the hidden or visible
\* state of every top-level element there was before the first.
C6_ToggleTwice ==
    (last.op = "toggle" /\ last.n = 2) =>
        /\ RecordKeys(editorState) = last.mid.recordKeys
        /\ \A k \in ElementKeys(last.mid.dom) :
              ElementState(dom, k) = ElementState(last.mid.dom, k)
        /\ HiddenKeys(dom) \cap ElementKeys(last.mid.dom) = HiddenKeys(last.mid.dom)

\* A heading was collapsed, hiding a block, and expanded again.
C6_Witness ==
    /\ last.op = "toggle" /\ last.n = 2
    /\ HiddenKeys(last.pre.dom) # {}
    /\ HiddenKeys(dom) = {}
    /\ last.key \in last.pre.recordKeys

C9_OneRecord ==
    /\ RecordCount(editorState) <= 1
    /\ \A i \in 1..Len(undoStack) : RecordCount(undoStack[i]) <= 1
    /\ \A i \in 1..Len(redoStack) : RecordCount(redoStack[i]) <= 1

\* A toggle found the record a first toggle had created, after an undo and
\* redo of that toggle.
C9_Witness ==
    /\ last.op = "toggle"
    /\ RecordCount(editorState) = 1
    /\ undoStack # <<>>
    /\ GetCollapsedStateNode(undoStack[Len(undoStack)]) # None
    /\ RecordCount(undoStack[1]) = 0

\* A step of the toggle command: hover steps leave `last` as it is, a toggle
\* command replaces it.
IsToggleStep == last'.op = "toggle" /\ last' # last

IsUndoStep ==
    /\ Len(redoStack') = Len(redoStack) + 1
    /\ editorState' = undoStack[Len(undoStack)]

IsRedoStep ==
    /\ redoStack # <<>>
    /\ redoStack' = SubSeq(redoStack, 1, Len(redoStack) - 1)
    /\ editorState' = redoStack[Len(redoStack)]

\* C10 as stated: the record's key set changes only in a toggle command.
C10_AsStated ==
    [][RecordKeys(editorState') # RecordKeys(editorState) => IsToggleStep]_vars

\* C10 (amended): there is no record before the first toggle command, and
\* the record's key set changes only in the update of the toggle command
\* handler or when undo or redo restores an editor state of the history;
\* every other step, with its passes, pruning and listeners, and every hover
\* step leaves the record as it is.
C10_RecordFrame ==
    /\ GetCollapsedStateNode(editorState) = None
    /\ [][/\ IsToggleStep =>
                RecordOf(editorState') = <<TRUE, ToggleKey(RecordKeys(editorState), last'.key)>>
          /\ RecordOf(editorState') # RecordOf(editorState) =>
                (IsToggleStep \/ IsUndoStep \/ IsRedoStep)]_vars

\* A heading whose key the record holds was removed: the cache was pruned,
\* the record was not.
C10_Witness ==
    /\ last.op = "other"
    /\ RecordKeys(editorState) # {}
    /\ collapsedHeadingKeys = {}
    /\ redoStack = <<>>
    /\ undoStack # <<>>
    /\ RecordKeys(undoStack[Len(undoStack)]) = RecordKeys(editorState)

\* ------------------------------------------------- claims on the teardown
\* C11: once the controller is torn down no top-level element is hidden by
\* it: the teardown restores every marked element to its recorded display
\* and removes the marker, and no later commit (edit, undo, redo) hides an
\* element or marks one, whatever the record of the restored state holds.
C11_TeardownRestores ==
    /\ last.op = "teardown" =>
          \A p \in 1..Len(dom) :
              /\ dom[p].key = last.pre.dom[p].key
              /\ last.pre.dom[p].marked => dom[p].display = last.pre.dom[p].origDisplay
              /\ ~last.pre.dom[p].marked => dom[p].display = last.pre.dom[p].display
    /\ ~mounted =>
          /\ Len(dom) = Len(editorState)
          /\ \A p \in 1..Len(dom) :
              /\ ~dom[p].marked
              /\ dom[p].origDisplay = ""
              /\ dom[p].display = NewElement(editorState[p]).display

\* After a teardown that restored a hidden block, an undo brought back a
\* state whose record holds a collapsed heading followed by a block, and the
\* block stays visible.
C11_Witness ==
    /\ ~mounted
    /\ last.op = "other"
    /\ redoStack # <<>>
    /\ \E p \in 1..Len(editorState) :
          /\ p < Len(editorState)
          /\ editorState[p].type = "heading"
          /\ editorState[p].key \in RecordKeys(editorState)
          /\ editorState[p + 1].type = "paragraph"
          /\ dom[p + 1].display = ""

\* ------------------------------------------ claims on the serialization
\* Positions of the headings that are collapsed: headings whose key the
\* record holds.
CollapsedPositions(state) ==
    {p \in 1..Len(state) : state[p].type = "heading" /\ state[p].key \in RecordKeys(state)}

MarkedPositions(children) == {p \in 1..Len(children) : children[p].marked}

\* C12 as stated: after an export to JSON and an import, exactly the
\* headings collapsed before the export are collapsed, and exactly the
\* elements hidden before are hidden. (Before the export the collapsed
\* headings are the elements whose key the pruned cache holds.)
C12_AsStated ==
    last.op = "reload" =>
        /\ CollapsedPositions(editorState) =
              {p \in 1..Len(last.pre.dom) : last.pre.dom[p].key \in last.pre.cache}
        /\ MarkedPositions(dom) = MarkedPositions(last.pre.dom)

\* --------------------------------------------- claims on the hover tracking
\* C13 as stated: after a pointer-leave to a place outside the container and
\* the button, the hover target is none and stays none until the next
\* pointer-move inside the container, also when a frame requested by an
\* earlier pointer-move is still pending.
C13_AsStated == pointer.left => hoverHeading = None

\* C14: at most one animation-frame callback is pending; it holds the target
\* of the most recent pointer-move that was not over the button; a frame
\* runs at most one hover evaluation however many pointer-moves came since
\* the frame before.
C14_OneFramePending ==
    /\ Cardinality(pendingFrames) <= 1
    /\ \A f \in pendingFrames : f.target = pointer.target /\ f.id = rafId
    /\ pointer.evals <= 1

\* Three pointer-moves, the last over a heading, came before one frame, which
\* ran one evaluation and made that heading the hover target.
C14_Witness ==
    /\ pendingFrames = {}
    /\ pointer.burst = 3
    /\ pointer.evals = 1
    /\ pointer.target.kind = "element"
    /\ hoverHeading = pointer.target.key

\* ------------------------------------------- claims on the selection toolbar
\* C15 as stated: after teardown no timer writes state: the selection-change
\* debounce timer, the pointer-release settle timer and the zero-delay format
\* re-sync timer are each cancelled by the teardown.
C15_AsStated ==
    ~toolbar.mounted => (timers = NoTimers /\ ~trace.derived)

C17_AsStated ==
    ~(trace.derived /\ trace.held = "outside")

\* C18 as stated: while focus is inside the toolbar, no selection-change or
\* document-update event runs the state derivation.
C18_AsStated ==
    ~(/\ trace.derived
      /\ trace.focus
      /\ trace.op \in {"selectionChange", "docUpdate", "debounce"})

\* C19 as stated: at most one debounce timer is pending; a burst of
\* selectionchange events, each less than SELECTION_DEBOUNCE_DELAY after the
\* one before and with no pointer button down, results in exactly one state
\* derivation, SELECTION_DEBOUNCE_DELAY after the last event of the burst;
\* that delay is longer than SELECTION_UPDATE_DELAY.
C19_AsStated ==
    /\ Cardinality(timers.debounce) <= 1
    /\ trace.op = "debounce" =>
          (trace.burst = {SELECTION_DEBOUNCE_DELAY} /\ ~trace.extra)
    /\ SELECTION_DEBOUNCE_DELAY > SELECTION_UPDATE_DELAY

\* C19: at most one debounce timer is pending; while no pointer button is
\* pressed or released and the plugin stays mounted, the timer of a burst of
\* selectionchange events is due SELECTION_DEBOUNCE_DELAY after the last
\* event, its callback derives the state once, at that time, and leaves no
\* debounce timer behind; that delay is longer than SELECTION_UPDATE_DELAY.
C19_Debounce ==
    /\ Cardinality(timers.debounce) <= 1
    /\ \A left \in timers.debounce : trace.burst = {SELECTION_DEBOUNCE_DELAY - left}
    /\ \A b \in trace.burst :
          b < SELECTION_DEBOUNCE_DELAY => timers.debounce = {SELECTION_DEBOUNCE_DELAY - b}
    /\ trace.op = "debounce" =>
          (trace.derived /\ trace.burst = {SELECTION_DEBOUNCE_DELAY} /\ timers.debounce = {})
    /\ SELECTION_DEBOUNCE_DELAY > SELECTION_UPDATE_DELAY

\* The debounce callback ran after a burst in which a later selectionchange
\* event restarted the pending timer.
C19_Witness ==
    /\ trace.op = "debounce"
    /\ trace.restarted
    /\ trace.burst = {SELECTION_DEBOUNCE_DELAY}
    /\ timers.debounce = {}

\* ----------------------------------------------------------- claim on Delete
\* C20 as stated: with a selection of text that spans two items of one list,
\* Delete removes exactly those two list items; the list and its other items
\* stay in the document.
C20_AsStated ==
    (/\ lastDelete.op = "delete"
     /\ lastDelete.pre[lastDelete.range.anchor.block].type = "list"
     /\ lastDelete.range.focus.item = lastDelete.range.anchor.item + 1
     /\ lastDelete.range.anchor.offset
           < lastDelete.pre[lastDelete.range.anchor.block]
                .items[lastDelete.range.anchor.item].len
     /\ lastDelete.range.focus.offset > 0)
    => LET b == lastDelete.range.anchor.block
           list == lastDelete.pre[b]
           i == lastDelete.range.anchor.item
           others == {list.items[n].key : n \in 1..Len(list.items)}
                        \ {list.items[i].key, list.items[i + 1].key}
       IN \E c \in 1..Len(listDoc.children) :
             /\ listDoc.children[c].key = list.key
             /\ {listDoc.children[c].items[n].key :
                   n \in 1..Len(listDoc.children[c].items)} = others

\* C21 as stated: Delete with a range selection that lies inside one
\* top-level block and does not cover it removes only the selected text: the
\* block stays in the document with its unselected text.
C21_AsStated ==
    (/\ lastDelete.op = "delete"
     /\ ~CoversBlock(lastDelete.pre[lastDelete.range.anchor.block], lastDelete.range))
    => LET b == lastDelete.range.anchor.block
           block == lastDelete.pre[b]
       IN /\ Len(listDoc.children) = Len(lastDelete.pre)
          /\ listDoc.children[b].key = block.key
          /\ TextOf(listDoc.children[b]) = TextOf(block) - SelectedText(block, lastDelete.range)

\* C22 as stated: a Copy with selected text dispatches the copy command and
\* calls the clipboard write if and only if no handler took the command; a
\* Copy without a range selection or without text does neither.
C22_AsStated ==
    (lastCopy.op = "copy" /\ lastCopy.failure # "dispatch")
    => IF lastCopy.text > 0
       THEN lastCopy.dispatched /\ (lastCopy.writeCalled <=> ~lastCopy.handled)
       ELSE ~lastCopy.dispatched /\ ~lastCopy.writeCalled

\* C23: a Copy in which the copy command or the clipboard write fails ends
\* normally: the failure is caught and logged, nothing escapes onCopy, and
\* the document, the selection, the toolbar state and the clipboard are as
\* they were.
C23_CopyFailureCaught ==
    [][(lastCopy'.op = "copy" /\ lastCopy'.failure # "none")
         => /\ lastCopy'.logged
            /\ ~lastCopy'.escaped
            /\ UNCHANGED <<listDoc, rangeSelection, toolbar, timers, page, clipboard>>]_vars

\* A Copy of selected text whose clipboard write was rejected, and logged.
C23_Witness ==
    /\ lastCopy.op = "copy"
    /\ lastCopy.text > 0
    /\ lastCopy.failure = "write"
    /\ lastCopy.logged

C25_AsStated ==
    (lastOverlay.op = "frame" /\ lastOverlay.top # None /\ ~lastOverlay.hadText)
    => overlay.info = None

\* The same for the first source alone, which tests the block's text.
C25_FirstSource ==
    overlay.version = "N1" => C25_AsStated

\* The selection of the editor: a range, a node selection or a caret.
SelectionOf(range, ov) == <<range, ov.nodeSelection, ov.caret>>

\* What an activation for the overlay's key has to leave behind.
ActivationDone ==
    /\ overlay'.focused
    /\ IF lastOverlay'.top = None
       THEN SelectionOf(rangeSelection', overlay') = SelectionOf(rangeSelection, overlay)
       ELSE IF lastOverlay'.hadText
       THEN /\ rangeSelection' = BlockRange(listDoc.children,
                                            KeyBlock(listDoc.children, lastOverlay'.top))
            /\ overlay'.nodeSelection = {}
       ELSE /\ ~rangeSelection'.on
            /\ overlay'.nodeSelection = {lastOverlay'.top}

\* C26: an activation of the node action button for key k gives the editor
\* focus and selects the block's text from the start of its first text node
\* to the end of its last one, or the block as a node selection if it has no
\* text node, or leaves the selection as it is if no node has key k.
C26_AsStated == [][lastOverlay'.op = "activate" => ActivationDone]_vars

\* The same for the second source alone.
C26_SecondSource ==
    [][(lastOverlay'.op = "activate" /\ overlay.version = "N2") => ActivationDone]_vars

\* C27: an element carries the highlight class only if the button is
\* rendered for that element and the pointer is over the button; with the
\* overlay cleared, and after a leave, an activation or the unmount, no
\* element carries it.
C27_AsStated ==
    /\ overlay.highlighted # None
       => overlay.info = overlay.highlighted /\ overlay.onButton
    /\ overlay.info = None => overlay.highlighted = None
    /\ lastOverlay.op \in {"leave", "activate", "unmount"} => overlay.highlighted = None

\* The same for each source alone.
C27_FirstSource == overlay.version = "N1" => C27_AsStated

C27_SecondSource == overlay.version = "N2" => C27_AsStated

\* ------------------------------------------ claims on the derived toolbar state
\* The block type the classification of the top-level element gives.
ClassifiedAs(element) ==
    CASE element.type = "heading" /\ element.tag \in {"h1", "h2", "h3"} -> element.tag
      [] element.type = "list" /\ element.listType = "number" -> "ol"
      [] element.type = "list" /\ element.listType # "number" -> "ul"
      [] element.type = "quote" -> "quote"
      [] element.type = "code" -> "code"
      [] OTHER -> "paragraph"

\* C28: for a non-collapsed range selection the derived block type is that of
\* the anchor's top-level element: h1, h2 or h3 for a heading with that tag,
\* ol for a numbered list, ul for another list, quote, code, and paragraph
\* for everything else, headings h4 to h6 included.
C28_AsStated ==
    (lastDerive.op = "derive" /\ lastDerive.ranged)
    => derivation.blockType = ClassifiedAs(lastDerive.element)

\* The same for the first source alone.
C28_FirstSource == toolbar.version = "A" => C28_AsStated

\* C29: a derivation whose computed rectangle has the x, y, width and height
\* of the stored one, and whose seven flags equal the stored ones, leaves the
\* stored selectionRect and formatState objects in place.
C29_AsStated ==
    (/\ lastDerive.op = "derive" /\ lastDerive.ranged
     /\ ~lastDerive.storedRect.isNull /\ ~lastDerive.computedRect.isNull
     /\ lastDerive.storedRect = lastDerive.computedRect
     /\ lastDerive.storedFormat = lastDerive.flags)
    => lastDerive.keptRect /\ lastDerive.keptFormat

\* The same for the second source alone.
C29_SecondSource == toolbar.version = "B" => C29_AsStated

\* ------------------------------------------ claims on the heading toggle button
\* C30: between a pointer-move over the heading toggle button and the next
\* pointer-move outside it or pointer-leave, no step changes or clears the
\* hover target, a frame requested by an earlier pointer-move included.
C30_AsStated ==
    [][(pointer.onButton /\ pointer'.onButton) => hoverHeading' = hoverHeading]_vars

\* ------------------------------------------------ claims on the toggle command
\* The key of the last toggle is the key of a top-level heading.
ToggledHeading ==
    \E p \in 1..Len(editorState) :
       editorState[p].type = "heading" /\ editorState[p].key = last.key

\* After a toggle the cache is the record's key set.
C31_CacheIsRecord ==
    last.op = "toggle" => collapsedHeadingKeys = RecordKeys(editorState)

\* After a toggle of a top-level heading its membership in the record and in
\* the cache is the opposite of what it was before.
C31_MembershipFlipped ==
    (last.op = "toggle" /\ last.n = 1 /\ ToggledHeading)
    => /\ (last.key \in RecordKeys(editorState)) # (last.key \in last.pre.recordKeys)
       /\ (last.key \in collapsedHeadingKeys) # (last.key \in last.pre.cache)

\* After a toggle the button shows the toggled heading as it is in the cache.
C31_ButtonShowsIt ==
    (last.op = "toggle" /\ shown.key = last.key)
    => shown.isCollapsed = (last.key \in collapsedHeadingKeys)

\* C31: once a toggle command for key k is committed and the listeners have
\* run, the cache equals the record's key set, the membership of k in both is
\* the opposite of what it was (k a top-level heading), and the toggle
\* button shows k collapsed exactly if k is in the set.
C31_AsStated == C31_CacheIsRecord /\ C31_MembershipFlipped /\ C31_ButtonShowsIt

\* ------------------------------------------------- claim on onDelete's removal
\* C32: onDelete removes exactly the top-level blocks that hold a node of the
\* range selection, each once, and no other block; without a range selection
\* the document is left as it is.
C32_RemovesSelectedBlocks ==
    lastDelete.op = "delete"
    => IF lastDelete.range.on
       THEN listDoc.children =
               SelectSeq(lastDelete.pre,
                         LAMBDA c : \A b \in FirstBlock(lastDelete.range)
                                              ..LastBlock(lastDelete.range) :
                                       c.key # lastDelete.pre[b].key)
       ELSE listDoc.children = lastDelete.pre

\* A Delete with a selection between a list of several items and another
\* block removed both blocks.
C32_Witness ==
    /\ lastDelete.op = "delete"
    /\ lastDelete.range.on
    /\ FirstBlock(lastDelete.range) < LastBlock(lastDelete.range)
    /\ \E b \in FirstBlock(lastDelete.range)..LastBlock(lastDelete.range) :
          /\ lastDelete.pre[b].type = "list"
          /\ Len(lastDelete.pre[b].items) > 1
    /\ Len(listDoc.children) = Len(lastDelete.pre) - 2

\* ---------------------------------------------- claims on CollapsedStateNode
\* C33: importJSON(exportJSON(node)) has the key set of the node, each key
\* once, and importJSON of a serialised node without the keys field has no
\* key.
C33_RoundTrip ==
    /\ lastNode.op = "roundTrip"
       => /\ Elems(lastNode.after) = lastNode.before
          /\ Cardinality(Elems(lastNode.after)) = Len(lastNode.after)
    /\ lastNode.op = "importLacking" => lastNode.after = <<>>

\* A node with two keys went through exportJSON and importJSON.
C33_Witness ==
    /\ lastNode.op = "roundTrip"
    /\ Cardinality(lastNode.before) = 2
    /\ Len(lastNode.after) = 2

\* C35: toggle(k) changes the membership of k and of no other key, and a
\* second toggle(k) right after the first gives the key set back.
C35_ToggleFrame ==
    lastNode.op = "toggle"
    => /\ (lastNode.key \in Elems(lastNode.after)) # (lastNode.key \in lastNode.before)
       /\ Elems(lastNode.after) \ {lastNode.key} = lastNode.before \ {lastNode.key}
       /\ lastNode.twice => Elems(lastNode.after) = lastNode.earlier

\* A key was toggled out of a set of two keys and in again.
C35_Witness ==
    /\ lastNode.op = "toggle"
    /\ lastNode.twice
    /\ lastNode.key \in Elems(lastNode.after)
    /\ Cardinality(lastNode.earlier) = 2

\* C36: the key set of every committed version of the record is what it was
\* when that version was committed, whatever was toggled, set or pruned
\* since; the set getKeys handed out is no version's Set object.
C36_CommittedKeysFrozen ==
    /\ \A v \in 1..Len(nodes.versions) :
          Elems(nodes.heap[nodes.versions[v]]) = nodes.frozen[v]
    /\ \A v \in 1..Len(nodes.versions) : nodes.versions[v] # nodes.cache

\* Two toggles were committed after the first version, and a key of the set
\* handed out was pruned while the latest version still holds it.
C36_Witness ==
    /\ Len(nodes.versions) >= 3
    /\ nodes.frozen[2] # nodes.frozen[3]
    /\ lastNode.op = "prune"
    /\ lastNode.key \in Elems(nodes.heap[Latest])

\* ------------------------------------- claims on the original-display marker
\* C34: a child of the root carries the marker exactly when it was hidden
\* since the last restore, and then it is not displayed and the marker holds
\* the display it had before it was first hidden, however often it was
\* hidden again; after a restore no child carries the marker and every child
\* that did has that display back.
C34_MarkerConsistent ==
    /\ \A p \in 1..Len(dom) :
          /\ dom[p].marked <=> p \in marks.hidden
          /\ dom[p].marked => dom[p].display = "none" /\ dom[p].origDisplay = marks.own[p]
          /\ ~dom[p].marked => dom[p].display = marks.own[p] /\ dom[p].origDisplay = ""
    /\ marks.op = "restore" =>
          \A p \in 1..Len(dom) : ~dom[p].marked /\ dom[p].display = marks.own[p]

\* A child with inline display block was hidden, hidden again while marked,
\* and restored, next to a child that was never hidden.
C34_Witness ==
    /\ marks.op = "restore"
    /\ \E p \in marks.was \cap marks.again : marks.own[p] = "block"
    /\ marks.was # 1..Len(dom)

\* ------------------------------------------------ claims on position tracking
\* Nothing is left to do for the tracking: no effect to run, no notification
\* to deliver.
TrackQuiet == ~track.stale /\ ~ObservationActive(track)

\* C37 as stated: once the pointer rests and nothing scrolls or resizes, the
\* overlay's position tracking comes to rest: from some point on no state
\* update and no re-subscription of the observer is left to happen.
C37_AsStated == track.version = "overlay" => <>[]TrackQuiet

\* Where C37 holds: while no overlay is shown the tracking is at rest once
\* the effect has run.
C37_RestsWithoutOverlay ==
    track.version = "overlay" /\ track.info = NoInfo /\ ~track.stale => TrackQuiet

\* C38 as stated: once the pointer rests and nothing scrolls or resizes, the
\* heading toggle's position tracking comes to rest: from some point on no
\* state update and no re-subscription of the observer is left to happen.
C38_AsStated == track.version = "heading" => <>[]TrackQuiet

\* Where C38 holds: while no heading is hovered the tracking is at rest once
\* the effect has run.
C38_RestsWithoutButton ==
    track.version = "heading" /\ track.info = NoInfo /\ ~track.stale => TrackQuiet

\* ------------------------------------------------ claims on the highlight
\* C39: at most one element carries the node-hover class, and the
\* component's ref is non-null exactly when an element carries it, which is
\* then the element the ref holds.
C39_OneHighlight ==
    /\ Cardinality(highlight.classed) <= 1
    /\ highlight.ref # None <=> highlight.classed # {}
    /\ highlight.ref # None => highlight.classed = {highlight.ref}

\* The highlight was just applied to the element of the second block while
\* another element, replaced in the document since, was highlighted.
C39_Witness ==
    /\ highlight.ref = highlight.elements[2]
    /\ highlight.from # None
    /\ \A b \in 1..MaxHighlightBlocks : highlight.elements[b] # highlight.from

====
